---- MODULE Spec2Model ----
(***************************************************************************)
(* FinVault adaptive authentication: the risk engine, the baseline         *)
(* learner, the known-network tracker, the session guardian and the        *)
(* step-up state machine, as implemented under backend/app.                *)
(*                                                                         *)
(* Value representation.  JSON payloads are duck-typed dictionaries; the   *)
(* model keeps the fields the code reads.  A missing key / None / "" is    *)
(* the empty string for text, -1 for a number and 0 for a list mean or a   *)
(* coordinate (the code tests these with Python truthiness).  Error rates  *)
(* are percentages (0.2 is 20).  A geolocation is a position in metres on  *)
(* a line, so the haversine distance is the absolute difference.  An IP    *)
(* address is (net, host); its CIDR prefix is the net part.                *)
(***************************************************************************)
EXTENDS Integers, Sequences, FiniteSets, TLC

VARIABLES
    env,        \* process environment: DENYLIST_IP_PREFIXES / ALLOWLIST_IP_PREFIXES
    sin,        \* risk engine harness: arguments of the pending score_login call
    sout,       \* risk engine harness: the returned result
    srepeat,    \* risk engine harness: the result of calling again with the same arguments
    users,      \* SQL users table: id -> row
    profiles,   \* Mongo behavior_profiles: user_id -> the document find_one returns
    profile_copies, \* Mongo behavior_profiles: user_id -> the further documents of that user
    counters,   \* Mongo known_network_counters: set of rows
    geo_events, \* Mongo geo_events: set of documents
    today,      \* the calendar day (UTC), a day number
    resp,       \* the response of the last completed request
    challenged, \* user_id -> the last login of that user answered "medium"
    pushed,     \* user_id -> every history entry the learner pushed, in store order
    handlers,   \* request handler tasks: id -> frame (position and locals)
    sessions,   \* Redis session state: session id -> hash (with ttl)
    magic_links \* Mongo magic_links: the inserted entries, the token is the position

vars == <<env, srepeat, profile_copies, sin, sout, users, profiles, counters, geo_events, today, resp, challenged,
          pushed, handlers, sessions, magic_links>>

----------------------------------------------------------------------------
(* Arithmetic helpers *)

Abs(x) == IF x < 0 THEN -x ELSE x

Min(a, b) == IF a < b THEN a ELSE b

Max(a, b) == IF a > b THEN a ELSE b

\* int(round(b * 0.3)) with Python's round-half-to-even
RoundTimes03(b) ==
    LET q == (3 * b) \div 10
        r == (3 * b) % 10
    IN  IF r > 5 THEN q + 1
        ELSE IF r < 5 THEN q
        ELSE q + (q % 2)

----------------------------------------------------------------------------
(* Program constants *)

MEDIUM_THRESHOLD == 40

HIGH_THRESHOLD == 60

PROMOTION_THRESHOLD == 3

PROMOTION_WINDOW_DAYS == 30

DECAY_DAYS == 90

HISTORY_SLICE == 3

STABLE_STREAK == 5

SESSION_TTL == 3600

----------------------------------------------------------------------------
(* IP addresses and prefixes *)

NoIp == [kind |-> "none", net |-> "", host |-> 0]

UnknownIp == [kind |-> "unknown", net |-> "", host |-> 0]

BadIp == [kind |-> "bad", net |-> "", host |-> 0]

Ip(net, host) == [kind |-> "v4", net |-> net, host |-> host]

\* ip_prefix: the /24 (or /64) network of a parseable address, else None ("")
IpPrefix(ip) == IF ip.kind = "v4" THEN ip.net ELSE ""

\* Python truthiness of the ip value ("unknown" and unparseable text are truthy)
IpTruthy(ip) == ip.kind # "none"

\* _ip_in_prefixes
IpInPrefixes(ip, prefixes) == ip.kind = "v4" /\ ip.net \in prefixes

PrivateNets == {"10.0.0"}

----------------------------------------------------------------------------
(* Device fingerprints *)

NoBrowser == [raw |-> "", brand |-> "", ver |-> -1]

Chrome119 == [raw |-> "Chrome 119", brand |-> "chrome", ver |-> 119]

Chrome122 == [raw |-> "Chrome 122", brand |-> "chrome", ver |-> 122]

Firefox120 == [raw |-> "Firefox 120", brand |-> "firefox", ver |-> 120]

OddBrowser == [raw |-> "Lynx", brand |-> "", ver |-> -1]

NoScreen == <<0, 0>>

EmptyDevice == [browser |-> NoBrowser, os |-> "", screen |-> NoScreen, timezone |-> ""]

DeviceEmpty(d) == d = EmptyDevice

\* _screen_within_tolerance
ScreenWithinTolerance(a, b, tol) == Abs(a[1] - b[1]) <= tol /\ Abs(a[2] - b[2]) <= tol

\* _screen_class
ScreenClass(wh) ==
    LET w == Min(wh[1], wh[2])
        h == Max(wh[1], wh[2])
    IN  IF w <= 480 /\ h <= 960 THEN "mobile-small"
        ELSE IF w <= 820 /\ h <= 1366 THEN (IF w < 600 THEN "mobile" ELSE "tablet")
        ELSE "desktop"

\* a screen value that _parse_screen understands has a positive width
ScreenParsed(s) == s[1] > 0

ScreenPresent(s) == s # NoScreen

\* device_penalty
DevicePenalty(cur, prof) ==
    LET cb == cur.browser
        pb == prof.browser
        browserPen ==
            IF cb.brand # "" /\ pb.brand # ""
            THEN IF cb.brand # pb.brand THEN 20
                 ELSE IF cb.ver # -1 /\ pb.ver # -1 /\ Abs(cb.ver - pb.ver) > 1 THEN 5
                 ELSE 0
            ELSE IF cb.raw # "" /\ pb.raw # "" /\ cb.raw # pb.raw THEN 10
            ELSE 0
        osPen == IF cur.os # "" /\ prof.os # "" /\ cur.os # prof.os THEN 15 ELSE 0
        screenPen ==
            IF ScreenPresent(cur.screen) /\ ScreenPresent(prof.screen)
            THEN IF ScreenParsed(cur.screen) /\ ScreenParsed(prof.screen)
                 THEN IF ~ScreenWithinTolerance(cur.screen, prof.screen, 100)
                      THEN IF ScreenClass(cur.screen) = ScreenClass(prof.screen) THEN 5 ELSE 15
                      ELSE 0
                 ELSE IF cur.screen # prof.screen THEN 5 ELSE 0
            ELSE 0
        tzPen == IF cur.timezone # "" /\ prof.timezone # "" /\ cur.timezone # prof.timezone
                 THEN 10 ELSE 0
    IN  browserPen + osPen + screenPen + tzPen

\* the core device fields that are empty ("Missing device fields")
MissingCoreFields(d) ==
    {k \in {"browser", "os", "screen", "timezone"} :
        \/ k = "browser" /\ d.browser.raw = ""
        \/ k = "os" /\ d.os = ""
        \/ k = "screen" /\ ~ScreenPresent(d.screen)
        \/ k = "timezone" /\ d.timezone = ""}

----------------------------------------------------------------------------
(* Geolocation *)

NoGeo == [present |-> FALSE, pos |-> 0, accuracy |-> -1, fallback |-> TRUE]

\* geo_penalty
GeoPenalty(cur, prof) ==
    IF cur.accuracy # -1 /\ cur.accuracy > 500 THEN 10
    ELSE IF cur.pos # 0 /\ prof.pos # 0
    THEN LET dist == Abs(cur.pos - prof.pos)
             tol  == IF cur.accuracy # -1 THEN Max(100, Min(500, cur.accuracy)) ELSE 100
         IN  IF dist > tol THEN 10 + Min(20, (dist - tol) \div 100) ELSE 0
    ELSE 0

NoIpGeo == [city |-> "", region |-> "", country |-> ""]

\* _city_fallback_penalty (the caller always passes a dict with the three keys)
CityFallbackPenalty(cur, prof) ==
    IF prof.country = "" THEN 15
    ELSE IF cur.country # prof.country THEN 10
    ELSE IF cur.city # "" /\ prof.city # "" /\ cur.city = prof.city THEN 0
    ELSE IF cur.region # "" /\ prof.region # "" /\ cur.region = prof.region THEN 3
    ELSE 7

----------------------------------------------------------------------------
(* Behavioural penalties *)

NoTypingBaseline == [wpm_mean |-> -1, wpm_std |-> -1, err_mean |-> -1, err_std |-> -1,
                     timing_mean |-> -1, timing_std |-> -1]

NoTypingPattern == [wpm |-> 0, errorRate |-> 0, timing |-> 0]

NoPointerBaseline == [path_len_mean |-> -1, path_len_std |-> -1,
                      clicks_mean |-> -1, clicks_std |-> -1]

NoMouseDynamics == [pathLen |-> 0, clicks |-> 0]

\* The dict handed to typing_penalty / mouse_penalty as `profile`, seen through the
\* keys these functions read: 'baselines', 'typing_pattern', 'mouse_dynamics'.
\* a typing_pattern / mouse_dynamics sub-document has none of those keys
SubDocumentView(d) ==
    [typing_baseline |-> NoTypingBaseline, typing_pattern |-> NoTypingPattern,
     pointer_baseline |-> NoPointerBaseline, mouse_dynamics |-> NoMouseDynamics]

\* zscore(val, mean, std) is None
ZNone(mean, std) == mean = -1 \/ std = -1 \/ std <= 0

\* ladder on |val - mean| / std with rungs z > 3, z > 2, z > 1.5
ZLadder(val, mean, std, p3, p2, p15) ==
    LET d == Abs(val - mean)
    IN  IF d > 3 * std THEN p3
        ELSE IF d > 2 * std THEN p2
        ELSE IF 2 * d > 3 * std THEN p15
        ELSE 0

\* typing_penalty
TypingPenalty(cur, prof) ==
    LET b == prof.typing_baseline
        raw == prof.typing_pattern
        wpmPen ==
            IF ~ZNone(b.wpm_mean, b.wpm_std)
            THEN ZLadder(cur.wpm, b.wpm_mean, b.wpm_std, 25, 15, 8)
            ELSE LET d == Abs(cur.wpm - raw.wpm)
                 IN  IF d > 30 THEN 30 ELSE IF d > 20 THEN 20 ELSE IF d > 10 THEN 10 ELSE 0
        errPen ==
            IF ~ZNone(b.err_mean, b.err_std)
            THEN ZLadder(cur.errorRate, b.err_mean, b.err_std, 20, 12, 6)
            ELSE LET d == Abs(cur.errorRate - raw.errorRate)
                 IN  IF d > 20 THEN 20 ELSE IF d > 10 THEN 10 ELSE 0
        timingPen ==
            IF cur.timing # 0 /\ ~ZNone(b.timing_mean, b.timing_std)
            THEN ZLadder(cur.timing, b.timing_mean, b.timing_std, 20, 12, 6)
            ELSE IF cur.timing # 0 /\ raw.timing # 0
            THEN LET d == Abs(cur.timing - raw.timing)
                 IN  IF d > 200 THEN 25 ELSE IF d > 100 THEN 15 ELSE IF d > 50 THEN 5 ELSE 0
            ELSE 0
    IN  wpmPen + errPen + timingPen

\* mouse_penalty
MousePenalty(cur, prof) ==
    LET b == prof.pointer_baseline
        raw == prof.mouse_dynamics
        pathPen ==
            IF cur.pathLen # 0
            THEN IF ~ZNone(b.path_len_mean, b.path_len_std)
                 THEN ZLadder(cur.pathLen, b.path_len_mean, b.path_len_std, 12, 7, 0)
                 ELSE IF raw.pathLen # 0
                 THEN LET d == Abs(cur.pathLen - raw.pathLen)
                      IN  IF d > 50 THEN 15 ELSE IF d > 10 THEN 5 ELSE 0
                 ELSE 0
            ELSE 0
        clickPen ==
            IF ~ZNone(b.clicks_mean, b.clicks_std)
            THEN ZLadder(cur.clicks, b.clicks_mean, b.clicks_std, 10, 6, 0)
            ELSE LET d == Abs(cur.clicks - raw.clicks)
                 IN  IF d > 5 THEN 10 ELSE IF d > 2 THEN 5 ELSE 0
    IN  pathPen + clickPen

NoChallenge == [type |-> "none", wpm |-> 0, errorRate |-> 0, timing |-> 0,
                pathLen |-> 0, clicks |-> 0]

----------------------------------------------------------------------------
(* score_login *)

CARRIER_ASN_LIST == {"AS55836", "AS45609", "AS55410", "AS55824"}

\* int(round(base * ip_weight_factor))
IpNudge(base, asn) == IF asn \in CARRIER_ASN_LIST THEN RoundTimes03(base) ELSE base

\* hashlib.sha256(json.dumps(core, sort_keys=True)): the digest stands for the
\* canonical JSON it hashes, the truthy core device fields and the ip prefix
Signature(device, prefix) == [set |-> TRUE, core |-> device, ip_prefix |-> prefix]

NoSignature == [set |-> FALSE, core |-> EmptyDevice, ip_prefix |-> ""]

\* the members of a stored array
Elements(array) == {array[i] : i \in DOMAIN array}

\* $push: the value goes to the end of the array, present or not
Push(array, value) == Append(array, value)

\* $addToSet: the value goes to the end of the array unless the array holds it
AddToSet(array, value) ==
    IF value \in Elements(array) THEN array ELSE Append(array, value)

\* $pull with $in: every copy of the values is taken out, the order is kept
Pull(array, values) == SelectSeq(array, LAMBDA x : x \notin values)

\* set(profile.get('known_networks', []) or [])
KnownNetworks(p) == Elements(p.known_networks)

\* an absent behaviour profile document ({} after `find_one(...) or {}`)
EmptyProfile ==
    [exists |-> FALSE, typing_pattern |-> NoTypingPattern, mouse_dynamics |-> NoMouseDynamics,
     device_fingerprint |-> EmptyDevice, geo |-> NoGeo, ip_geo |-> NoIpGeo,
     known_networks |-> <<>>, baselines |-> [typing |-> 0, pointer |-> 0],
     low_risk_streak |-> 0, baseline_version |-> 0, baseline_stable |-> FALSE,
     baseline_history |-> <<>>, behavior_signature |-> NoSignature]

\* "not geo or geo.get('fallback', True)"
GeoMissing(geo) == ~geo.present \/ geo.fallback

\* count of missing critical signals among profile, challenge, device, geo
MissingSignals(ch, m, p) ==
    (IF ~p.exists THEN 1 ELSE 0) + (IF ch.type = "none" THEN 1 ELSE 0)
    + (IF DeviceEmpty(m.device) THEN 1 ELSE 0) + (IF GeoMissing(m.geo) THEN 1 ELSE 0)

\* the escalation with the first floor only
EscalateFirstFloor(score, missing) ==
    IF missing >= 2 THEN Max(score, 45) ELSE score

\* the escalation floors
Escalate(score, missing) ==
    LET a == IF missing >= 2 THEN Max(score, 45) ELSE score
    IN  IF missing >= 3 THEN Max(a, 65) ELSE a

\* the passive scroll / dwell tells, added after the clamp
PassivePenalty(m) ==
    (IF m.scroll # -1 /\ m.scroll < 10 THEN 2 ELSE 0)
    + (IF m.dwell # -1 /\ m.dwell < 2000 THEN 2 ELSE 0)

\* the clamp and the passive tells: the last lines before the level is derived
FinalScore(score, m) == Min(score, 100) + PassivePenalty(m)

\* the level with the thresholds included in the band above
LevelOfInclusive(score) ==
    IF score >= HIGH_THRESHOLD THEN "high"
    ELSE IF score >= MEDIUM_THRESHOLD THEN "medium"
    ELSE "low"

\* the level of a final score: strict thresholds
LevelOf(score) ==
    IF score > HIGH_THRESHOLD THEN "high"
    ELSE IF score > MEDIUM_THRESHOLD THEN "medium"
    ELSE "low"

\* the behavioural penalties of score_login: typing_penalty and mouse_penalty are
\* handed profile['typing_pattern'] and profile['mouse_dynamics'], not the profile
BehaviouralPenalty(ch, p) ==
    (IF ch.type = "typing" THEN TypingPenalty(ch, SubDocumentView(p.typing_pattern)) ELSE 0)
    + (IF ch.type \in {"mouse", "touch"}
       THEN MousePenalty(ch, SubDocumentView(p.mouse_dynamics)) ELSE 0)

\* a reason appended when its condition holds
Reason(cond, text) == IF cond THEN <<text>> ELSE <<>>

\* the reasons of score_login in the order the code appends them, one entry per
\* block that appended (the penalty functions append exactly when they penalise)
ScoreReasons(ch, m, p, behPen) ==
    Reason(~p.exists, "No behavior profile on file")
    \o Reason(ch.type = "none", "No behavioral challenge provided")
    \o Reason(GeoMissing(m.geo), "No reliable geolocation (fallback or missing)")
    \o Reason(GeoMissing(m.geo), "Geo fallback")
    \o Reason(DeviceEmpty(m.device), "No device fingerprint provided")
    \o Reason(behPen > 0, "behavioural")
    \o Reason(MissingCoreFields(m.device) # {}, "Missing device fields")
    \o Reason(/\ ~DeviceEmpty(p.device_fingerprint) /\ ~DeviceEmpty(m.device)
              /\ DevicePenalty(m.device, p.device_fingerprint) > 0, "device")
    \o Reason(p.geo.present /\ m.geo.present /\ GeoPenalty(m.geo, p.geo) > 0, "geo")
    \o Reason(/\ p.geo.present /\ m.geo.present
              /\ m.geo.accuracy # -1 /\ m.geo.accuracy > 500
              /\ CityFallbackPenalty(m.ip_geo, p.ip_geo) > 10, "Geo fallback")
    \o Reason(m.ip.kind \in {"none", "unknown"}, "IP missing or unknown")
    \o Reason(env.deny # {} /\ IpInPrefixes(m.ip, env.deny), "IP is in denylist range")
    \o Reason(/\ IpTruthy(m.ip) /\ KnownNetworks(p) # {}
              /\ IpInPrefixes(m.ip, KnownNetworks(p)), "IP matches user's known network")
    \o Reason(m.ip_asn \in CARRIER_ASN_LIST, "Carrier/mobile ASN detected")
    \o Reason(m.scroll # -1 /\ m.scroll < 10, "Low scroll depth")
    \o Reason(m.dwell # -1 /\ m.dwell < 2000, "Very short dwell time")

\* score_login around its behavioural penalties behPen
ScoreLoginGiven(ch, m, p, behPen) ==
    LET missingPen ==
            (IF ~p.exists THEN 20 ELSE 0)
            + (IF ch.type = "none" THEN 15 ELSE 0)
            + (IF GeoMissing(m.geo) THEN CityFallbackPenalty(m.ip_geo, p.ip_geo) ELSE 0)
            + (IF DeviceEmpty(m.device) THEN 20 ELSE 0)
        devPen ==
            (IF MissingCoreFields(m.device) # {} THEN 10 ELSE 0)
            + (IF ~DeviceEmpty(p.device_fingerprint) /\ ~DeviceEmpty(m.device)
               THEN DevicePenalty(m.device, p.device_fingerprint) ELSE 0)
        geoPen ==
            IF p.geo.present /\ m.geo.present
            THEN GeoPenalty(m.geo, p.geo)
                 + (IF m.geo.accuracy # -1 /\ m.geo.accuracy > 500
                    THEN Max(0, CityFallbackPenalty(m.ip_geo, p.ip_geo) - 10) ELSE 0)
            ELSE 0
        ipPen ==
            (IF m.ip.kind \in {"none", "unknown"} THEN 5 ELSE 0)
            + (IF env.deny # {} /\ IpInPrefixes(m.ip, env.deny) THEN 25 ELSE 0)
            + (IF env.allow # {} /\ ~IpInPrefixes(m.ip, env.allow) THEN IpNudge(5, m.ip_asn) ELSE 0)
        s1 == missingPen + behPen + devPen + geoPen + ipPen
        s2 == IF IpTruthy(m.ip) /\ KnownNetworks(p) # {}
              THEN IF IpInPrefixes(m.ip, KnownNetworks(p)) THEN Max(0, s1 - 7)
                   ELSE s1 + IpNudge(3, m.ip_asn)
              ELSE s1
        missing == MissingSignals(ch, m, p)
        score == FinalScore(Escalate(s2, missing), m)
    IN  [risk_score |-> score, level |-> LevelOf(score),
         reasons |-> ScoreReasons(ch, m, p, behPen), missing_signals |-> missing]

\* score_login
ScoreLogin(ch, m, p) == ScoreLoginGiven(ch, m, p, BehaviouralPenalty(ch, p))


----------------------------------------------------------------------------
(* The stores before any request *)

Users == {1}

NoUser == 0

\* an id of the users table without a row; phone "" is a NULL phone
NoRow == [exists |-> FALSE, verified |-> FALSE, onboarding_complete |-> FALSE, role |-> "user",
          email |-> "", phone |-> ""]

\* the identifiers of the person behind user 1
AnnEmail == "ann@example.com"

AnnPhone == "+15550001"

\* a response without the flags of a registration conflict
NoFlags == [set |-> FALSE, verified |-> FALSE, onboarding_complete |-> FALSE]

\* a response: the endpoint, the user it resolved, the HTTP status, the risk level it
\* reports, the tokens it carries; `presented` is the scope of the bearer token the
\* request came with and `prior` whether the user was challenged when it arrived
NoSession == 0

NoResp == [op |-> "none", user |-> NoUser, status |-> 0, level |-> "", tokens |-> {},
           presented |-> "none", prior |-> FALSE, sid |-> NoSession, note |-> "",
           link |-> 0, alert |-> "", reasons |-> FALSE, risk |-> -1, flags |-> NoFlags]

SessionIds == {1}

\* an absent session:<id> key; -1 and "" stand for fields the hash does not have
NoHash == [exists |-> FALSE, user_id |-> NoUser, risk_level |-> "", risk_score |-> -1,
           reason |-> "", ttl |-> -1]

Handlers == {1, 2}

\* the result of a find_one on magic_links that matched no entry
NoEntry == [user_id |-> NoUser, used |-> FALSE, expired |-> FALSE]

\* the result of a find_one on known_network_counters that matched no row
NoCounter == [id |-> 0, user_id |-> NoUser, prefix |-> "", day |-> -1, last_seen |-> -1]

\* a handler task that is not serving a request
IdleFrame == [pc |-> "idle", kind |-> "", user |-> NoUser, ch |-> NoChallenge,
              m |-> [device |-> EmptyDevice, geo |-> NoGeo, ip |-> NoIp, ip_asn |-> "",
                     ip_geo |-> NoIpGeo, scroll |-> -1, dwell |-> -1],
              ambient |-> [screen |-> NoScreen, timezone |-> ""],
              existing |-> EmptyProfile, email |-> "", phone |-> "",
              link |-> 0, entry |-> NoEntry, doc |-> NoCounter,
              sid |-> 0, result |-> [risk_score |-> -1, level |-> ""], scope |-> "",
              mismatch |-> FALSE]

NoInput == [ch |-> NoChallenge,
            m |-> [device |-> EmptyDevice, geo |-> NoGeo, ip |-> NoIp, ip_asn |-> "",
                   ip_geo |-> NoIpGeo, scroll |-> -1, dwell |-> -1],
            p |-> EmptyProfile]

NoResult == [risk_score |-> -1, level |-> "", missing_signals |-> -1]

\* jwt_secret: whether JWT_SECRET is set in the environment
DefaultEnv == [deny |-> {}, allow |-> {}, jwt_secret |-> TRUE]

EmptyStores ==
    /\ users = [u \in Users |-> NoRow]
    /\ profiles = [u \in Users |-> EmptyProfile]
    /\ profile_copies = [u \in Users |-> 0]
    /\ counters = {}
    /\ geo_events = {}
    /\ today = 0
    /\ resp = NoResp
    /\ challenged = [u \in Users |-> FALSE]
    /\ pushed = [u \in Users |-> <<>>]
    /\ handlers = [h \in Handlers |-> IdleFrame]
    /\ sessions = [s \in SessionIds |-> NoHash]
    /\ magic_links = <<>>

----------------------------------------------------------------------------
(* Risk engine harness: score_login applied to one set of arguments *)

HomeDevice == [browser |-> Chrome119, os |-> "windows", screen |-> <<1920, 1080>>,
               timezone |-> "America/New_York"]

OtherDevice == [browser |-> Firefox120, os |-> "linux", screen |-> <<390, 844>>,
                timezone |-> "UTC"]

HomeGeo == [present |-> TRUE, pos |-> 1000, accuracy |-> 20, fallback |-> FALSE]

FarGeo == [present |-> TRUE, pos |-> 9000, accuracy |-> 20, fallback |-> FALSE]

CoarseGeo == [present |-> TRUE, pos |-> 1000, accuracy |-> 800, fallback |-> FALSE]

HomeIpGeo == [city |-> "nyc", region |-> "ny", country |-> "us"]

AbroadIpGeo == [city |-> "pune", region |-> "mh", country |-> "in"]

HomeIp == Ip("203.0.113", 10)

NewIp == Ip("198.51.100", 5)

PrivateIp == Ip("10.0.0", 4)

SlowTyping == [type |-> "typing", wpm |-> 8, errorRate |-> 0, timing |-> 0,
               pathLen |-> 0, clicks |-> 0]

FastTyping == [type |-> "typing", wpm |-> 45, errorRate |-> 25, timing |-> 300,
               pathLen |-> 0, clicks |-> 0]

MouseMoves == [type |-> "mouse", wpm |-> 0, errorRate |-> 0, timing |-> 0,
               pathLen |-> 20, clicks |-> 6]

\* the document /auth/onboarding stores
OnboardedProfile ==
    [EmptyProfile EXCEPT !.exists = TRUE,
                         !.typing_pattern = [wpm |-> 40, errorRate |-> 2, timing |-> 120],
                         !.mouse_dynamics = [pathLen |-> 20, clicks |-> 3],
                         !.device_fingerprint = HomeDevice,
                         !.geo = HomeGeo]

SeasonedProfile ==
    [OnboardedProfile EXCEPT !.ip_geo = HomeIpGeo, !.known_networks = <<"203.0.113">>]

ScoreChallenges == {NoChallenge, SlowTyping, FastTyping, MouseMoves}

\* ewma_update seeds a dimension with the first sample: mean x, variance 1.0
SeedTypingBaseline(ch) ==
    [wpm_mean |-> ch.wpm, wpm_std |-> 1, err_mean |-> ch.errorRate, err_std |-> 1,
     timing_mean |-> IF ch.timing # 0 THEN ch.timing ELSE -1,
     timing_std |-> IF ch.timing # 0 THEN 1 ELSE -1]

SeedPointerBaseline(ch) ==
    [path_len_mean |-> ch.pathLen, path_len_std |-> 1, clicks_mean |-> ch.clicks,
     clicks_std |-> 1]

\* the seasoned profile after one low-risk login with SlowTyping and one with
\* MouseMoves: each baseline group has had its seeding update
LearnedProfile ==
    [SeasonedProfile EXCEPT !.baselines = [typing |-> 1, pointer |-> 1]]

ScoreProfiles == {EmptyProfile, OnboardedProfile, SeasonedProfile, LearnedProfile}

ScoreMetrics ==
    [device : {EmptyDevice, HomeDevice, OtherDevice},
     geo : {NoGeo, HomeGeo, FarGeo, CoarseGeo},
     ip : {NoIp, HomeIp, NewIp},
     ip_asn : {"", "AS55836"},
     ip_geo : {NoIpGeo, HomeIpGeo, AbroadIpGeo},
     scroll : {-1, 5},
     dwell : {-1, 1500}]

ScoreEnvs == {DefaultEnv, [DefaultEnv EXCEPT !.deny = {"198.51.100"}],
              [DefaultEnv EXCEPT !.allow = {"203.0.113"}]}

ScoreInit ==
    /\ env \in ScoreEnvs
    /\ sin \in [ch : ScoreChallenges, m : ScoreMetrics, p : ScoreProfiles]
    /\ sout = NoResult
    /\ srepeat = NoResult
    /\ EmptyStores

\* a score_login that remembers the network it scored
ScoreCallLearning ==
    /\ sout = NoResult
    /\ sout' = ScoreLogin(sin.ch, sin.m, sin.p)
    /\ sin' = [sin EXCEPT !.p.known_networks =
                   IF IpPrefix(sin.m.ip) # "" THEN AddToSet(@, IpPrefix(sin.m.ip)) ELSE @]
    /\ UNCHANGED <<env, srepeat, profile_copies, users, profiles, counters, geo_events, today, resp,
                   challenged, pushed, handlers, sessions, magic_links>>

ScoreCall ==
    /\ sout = NoResult
    /\ sout' = ScoreLogin(sin.ch, sin.m, sin.p)
    /\ UNCHANGED <<env, srepeat, profile_copies, sin, users, profiles, counters, geo_events, today, resp, challenged,
                   pushed, handlers, sessions, magic_links>>


----------------------------------------------------------------------------
(* Profile documents: the update operators the handlers send to Mongo *)

CanonicalBrowsers == {Chrome119, Chrome122, Firefox120}

\* canonicalize_device_fields: "<Brand> <major>" for a parsed browser; the os
\* family and the WxH screen are already the canonical values in this model
CanonicalizeDevice(d) ==
    IF d.browser.brand = "" THEN d
    ELSE [d EXCEPT !.browser =
            CHOOSE c \in CanonicalBrowsers : c.brand = d.browser.brand /\ c.ver = d.browser.ver]

\* a push that keeps the oldest entries instead of the newest
PushSliceOldest(history, entry) ==
    LET h == Append(history, entry)
    IN  IF Len(h) <= HISTORY_SLICE THEN h ELSE SubSeq(h, 1, HISTORY_SLICE)

\* {"$push": {"baseline_history": {"$each": [entry], "$slice": -3}}}
PushSlice(history, entry) ==
    LET h == Append(history, entry)
    IN  IF Len(h) <= HISTORY_SLICE THEN h
        ELSE SubSeq(h, Len(h) - HISTORY_SLICE + 1, Len(h))

\* the baselines after the EWMA update for the challenge of this login: the model
\* keeps, per dimension group, how many updates went into the mean and variance
UpdatedBaselines(baselines, ch) ==
    [typing  |-> baselines.typing + (IF ch.type = "typing" THEN 1 ELSE 0),
     pointer |-> baselines.pointer + (IF ch.type \in {"mouse", "touch"} THEN 1 ELSE 0)]

\* Warm-up policy and versioning, computed from the document read as `existing`
NextStreak(existing) == existing.low_risk_streak + 1

NextVersion(existing) == existing.baseline_version + 1

NextStable(existing) == existing.baseline_stable \/ NextStreak(existing) >= STABLE_STREAK

\* a history entry stamped with the version that was read
HistoryEntryStale(existing, baselines) ==
    [version |-> existing.baseline_version, baselines |-> baselines]

\* the history entry a learner invocation pushes
HistoryEntry(existing, baselines) == [version |-> NextVersion(existing), baselines |-> baselines]

\* login, low risk: update_one(update_ops, upsert=True) applied to the stored
\* document `doc`, with update_ops computed from `existing` and the request
LoginLearn(doc, existing, ch, m) ==
    LET prefix == IpPrefix(m.ip)
        base == UpdatedBaselines(existing.baselines, ch)
        d1 == [doc EXCEPT !.exists = TRUE,
                          !.baselines = base,
                          !.low_risk_streak = NextStreak(existing),
                          !.baseline_version = NextVersion(existing),
                          !.baseline_stable = NextStable(existing),
                          !.behavior_signature = Signature(m.device, prefix),
                          !.baseline_history = PushSlice(doc.baseline_history,
                                                         HistoryEntry(existing, base))]
        d2 == IF ~DeviceEmpty(m.device)
              THEN [d1 EXCEPT !.device_fingerprint = CanonicalizeDevice(m.device)] ELSE d1
        d3 == IF m.geo.present /\ ~m.geo.fallback THEN [d2 EXCEPT !.geo = m.geo] ELSE d2
        d4 == IF m.ip_geo # NoIpGeo THEN [d3 EXCEPT !.ip_geo = m.ip_geo] ELSE d3
    IN  IF prefix # "" THEN [d4 EXCEPT !.known_networks = AddToSet(@, prefix)] ELSE d4

NoAmbient == [screen |-> NoScreen, timezone |-> ""]

\* core_device of a step-up: the device metrics, screen and timezone filled from
\* the ambient payload where the metrics lack them
CoreDevice(m, ambient) ==
    [m.device EXCEPT !.screen = IF ScreenPresent(@) THEN @ ELSE ambient.screen,
                     !.timezone = IF @ # "" THEN @ ELSE ambient.timezone]

\* context-answer / ambient-verify, on success: the same versioning, the stored
\* baselines as the snapshot, device and signature from the request
StepUpLearn(doc, existing, m, ambient) ==
    LET prefix == IpPrefix(m.ip)
        core == CoreDevice(m, ambient)
        d1 == [doc EXCEPT !.exists = TRUE,
                          !.low_risk_streak = NextStreak(existing),
                          !.baseline_version = NextVersion(existing),
                          !.baseline_stable = NextStable(existing),
                          !.baseline_history = PushSlice(doc.baseline_history,
                                                         HistoryEntry(existing, existing.baselines))]
        d2 == IF ~DeviceEmpty(core)
              THEN [d1 EXCEPT !.device_fingerprint = CanonicalizeDevice(core)] ELSE d1
        d3 == IF ~DeviceEmpty(core) \/ prefix # ""
              THEN [d2 EXCEPT !.behavior_signature = Signature(core, prefix)] ELSE d2
    IN  IF prefix # "" THEN [d3 EXCEPT !.known_networks = AddToSet(@, prefix)] ELSE d3

\* behavioral-verify with residual risk <= 10: {"$set": update}
BehavioralLearn(doc, ch, m) ==
    LET d1 == IF ch.type = "typing"
              THEN [doc EXCEPT !.typing_pattern =
                        [wpm |-> ch.wpm, errorRate |-> ch.errorRate, timing |-> ch.timing]]
              ELSE doc
        d2 == IF ch.type \in {"mouse", "touch"}
              THEN [d1 EXCEPT !.mouse_dynamics = [pathLen |-> ch.pathLen, clicks |-> ch.clicks]]
              ELSE d1
    IN  [d2 EXCEPT !.exists = TRUE, !.behavior_signature = Signature(m.device, IpPrefix(m.ip))]

\* /auth/onboarding: {"$set": data.dict()} with upsert
OnboardingSet(doc, payload) ==
    [doc EXCEPT !.exists = TRUE,
                !.typing_pattern = payload.typing_pattern,
                !.mouse_dynamics = payload.mouse_dynamics,
                !.device_fingerprint = payload.device_fingerprint,
                !.geo = payload.geo]

----------------------------------------------------------------------------
(* Geo events *)

\* the days raw geo events are kept
GEO_RETENTION_DAYS == 30

\* the test both writers apply: an accurate fix with latitude and longitude
GeoAccurate(geo) == geo.present /\ ~geo.fallback /\ geo.pos # 0

\* geo_events.insert_one; documents of one user, place and day are not told apart
GeoInsert(events, u, geo) ==
    IF GeoAccurate(geo) THEN events \cup {[user_id |-> u, pos |-> geo.pos, day |-> today]}
    ELSE events

\* the low-risk login: insert_one, then delete_many of the user's events older
\* than the retention
GeoStore(events, u, geo) ==
    IF GeoAccurate(geo)
    THEN {e \in GeoInsert(events, u, geo) :
             ~(e.user_id = u /\ e.day < today - GEO_RETENTION_DAYS)}
    ELSE events

----------------------------------------------------------------------------
(* Known-network tracker *)

\* update_known_network_counter: one row per (user, prefix, day), last_seen = now
UpsertCounter(rows, u, ip) ==
    LET prefix == IpPrefix(ip)
    IN  IF prefix = "" THEN rows
        ELSE {r \in rows : ~(r.user_id = u /\ r.prefix = prefix /\ r.day = today)}
             \cup {[user_id |-> u, prefix |-> prefix, day |-> today, last_seen |-> today]}

\* the distinct days of (user, prefix) with day >= today - 30
DistinctDays(rows, u, prefix) ==
    {r.day : r \in {x \in rows : x.user_id = u /\ x.prefix = prefix
                                  /\ x.day >= today - PROMOTION_WINDOW_DAYS}}

\* promote_known_network_if_ready
Promote(doc, rows, u, ip) ==
    LET prefix == IpPrefix(ip)
    IN  IF prefix # "" /\ Cardinality(DistinctDays(rows, u, prefix)) >= PROMOTION_THRESHOLD
        THEN [doc EXCEPT !.exists = TRUE, !.known_networks = AddToSet(@, prefix)]
        ELSE doc

\* the most recent last_seen of (user, prefix), -1 when there is no counter row
LastSeen(rows, u, prefix) ==
    LET mine == {r.last_seen : r \in {x \in rows : x.user_id = u /\ x.prefix = prefix}}
    IN  IF mine = {} THEN -1 ELSE CHOOSE d \in mine : \A e \in mine : e <= d

\* a sweep that takes nothing out
DemoteNothing(doc, rows, u) == doc

\* demote_stale_known_networks
Demote(doc, rows, u) ==
    LET stale == {pf \in KnownNetworks(doc) :
                     LastSeen(rows, u, pf) = -1 \/ LastSeen(rows, u, pf) < today - DECAY_DAYS}
    IN  [doc EXCEPT !.known_networks = Pull(@, stale)]

\* the store operations of a low-risk login that can fail, "load" being the profile
\* read made for scoring and "none" a login whose store calls all succeed
LearnerFaults == {"read", "update", "counter", "promote", "demote", "geo"}

StoreFaults == {"none", "load"} \cup LearnerFaults

\* update_known_network_counter swallows a failed upsert
TrackCounters(rows, u, ip, fault) ==
    IF IpTruthy(ip) /\ fault # "counter" THEN UpsertCounter(rows, u, ip) ELSE rows

\* the tracker calls of a low-risk login, made only when metrics carry an ip; each
\* of the three swallows its own failure and the next one still runs
TrackNetworks(doc, rows, u, ip, fault) ==
    IF IpTruthy(ip)
    THEN LET counted  == TrackCounters(rows, u, ip, fault)
             promoted == IF fault = "promote" THEN doc ELSE Promote(doc, counted, u, ip)
         IN  IF fault = "demote" THEN promoted ELSE Demote(promoted, counted, u)
    ELSE doc

----------------------------------------------------------------------------
(* Tokens and responses *)

\* the claims of a JWT: role "" and NoSignature stand for an absent claim, scope ""
\* for a token minted without a scope
Token(u, scope, role, sig) ==
    [user_id |-> u, scope |-> scope, role |-> role, behavior_signature |-> sig]

\* a request without a bearer token
NoToken == Token(NoUser, "none", "", NoSignature)

\* verify_magic_link_token: the payload, or None (NoToken) when the signature or
\* the expiry does not verify
VerifyMagicLinkToken(tok, valid) == IF valid THEN tok ELSE NoToken

\* verify_refresh_token
VerifyRefreshToken(tok, valid) ==
    LET payload == VerifyMagicLinkToken(tok, valid)
    IN  IF payload # NoToken /\ payload.scope = "refresh" THEN payload ELSE NoToken

\* refresh_access_token without the scope test of verify_refresh_token
RefreshAnyScope(tok, valid) ==
    LET payload == VerifyMagicLinkToken(tok, valid)
    IN  IF payload = NoToken THEN {}
        ELSE {Token(payload.user_id, "access", payload.role, payload.behavior_signature)}

\* refresh_access_token: the new token as a set, empty for None; every claim but
\* exp and scope is copied
RefreshAccessToken(tok, valid) ==
    LET payload == VerifyRefreshToken(tok, valid)
    IN  IF payload = NoToken THEN {}
        ELSE {Token(payload.user_id, "access", payload.role, payload.behavior_signature)}

\* create_jwt_token_pair
TokenPair(u, role) ==
    {Token(u, "access", role, NoSignature), Token(u, "refresh", role, NoSignature)}

Reply(op, u, status, level, tokens, presented, prior) ==
    [op |-> op, user |-> u, status |-> status, level |-> level, tokens |-> tokens,
     presented |-> presented, prior |-> prior, sid |-> NoSession, note |-> "",
     link |-> 0, alert |-> "", reasons |-> FALSE, risk |-> -1, flags |-> NoFlags]

\* a lookup by identifier finds a row
Found(u) == u \in Users /\ users[u].exists

WasChallenged(u) == u \in Users /\ challenged[u]

\* the most learner invocations per user a behaviour of the concurrent learner
\* considers, and the most a behaviour of the whole service considers
MaxVersion == 6

MaxLearned == 2

\* the handler tasks that are in the middle of a learner invocation for user u
InFlight(u) == {h \in Handlers : handlers[h].pc # "idle" /\ handlers[h].user = u}

\* user u has had fewer than cap learner invocations, finished or in flight
Within(u, cap) == u \in Users => Len(pushed[u]) + Cardinality(InFlight(u)) < cap

\* the requests sent by the clients of the model
Request(ch, device, geo, ip) ==
    [ch |-> ch, m |-> [device |-> device, geo |-> geo, ip |-> ip, ip_asn |-> "",
                       ip_geo |-> NoIpGeo, scroll |-> -1, dwell |-> -1]]

LowRequest == Request(SlowTyping, HomeDevice, HomeGeo, HomeIp)

LowRequestNewIp == Request(SlowTyping, HomeDevice, HomeGeo, NewIp)

MediumRequest == Request(FastTyping, HomeDevice, HomeGeo, HomeIp)

HighRequest == Request(NoChallenge, OtherDevice, FarGeo, NoIp)

\* the login device and typing with no location and no address
ResidualRequest == Request(SlowTyping, HomeDevice, NoGeo, NoIp)

LoginRequests == {LowRequest, MediumRequest, HighRequest}

OnboardingPayloads == {OnboardedProfile}

----------------------------------------------------------------------------
(* Registration, verification, onboarding *)

\* select(User).where(User.email == data.email), then by phone when the request has
\* one: the id of the row found, NoUser when there is none
RegisteredOwner(email, phone) ==
    LET byEmail == {i \in DOMAIN users : users[i].exists /\ users[i].email = email}
        byPhone == {i \in DOMAIN users : users[i].exists /\ phone # "" /\ users[i].phone = phone}
    IN  IF byEmail # {} THEN CHOOSE i \in byEmail : TRUE
        ELSE IF byPhone # {} THEN CHOOSE i \in byPhone : TRUE
        ELSE NoUser

\* the 409 of the two lookups: verified from the row, onboarding_complete from the
\* presence of a behaviour profile document
RegisterConflict(owner) ==
    [Reply("register", owner, 409, "", {}, "none", WasChallenged(owner))
        EXCEPT !.flags = [set |-> TRUE, verified |-> users[owner].verified,
                          onboarding_complete |-> profiles[owner].exists]]

\* the ids the users table has not given out
FreeIds == {i \in DOMAIN users : ~users[i].exists}

\* db.add(new_user); db.commit(): the unique indexes on email and phone refuse a
\* duplicate (IntegrityError, a 409 with a message only); otherwise the row gets
\* the next id, and the magic-link token is minted and sent
RegisterCommit(email, phone) ==
    IF RegisteredOwner(email, phone) # NoUser
    THEN /\ resp' = [Reply("register", RegisteredOwner(email, phone), 409, "", {}, "none",
                           WasChallenged(RegisteredOwner(email, phone)))
                        EXCEPT !.note = "integrity_error"]
         /\ UNCHANGED users
    ELSE /\ FreeIds # {}
         /\ LET id == CHOOSE i \in FreeIds : \A j \in FreeIds : i <= j
            IN  /\ users' = [users EXCEPT ![id] = [NoRow EXCEPT !.exists = TRUE,
                                                               !.email = email,
                                                               !.phone = phone]]
                /\ resp' = Reply("register", id, 201, "", {Token(id, "", "", NoSignature)},
                                 "none", WasChallenged(id))

\* POST /auth/register, served without another request in between
Register(email, phone) ==
    /\ IF RegisteredOwner(email, phone) # NoUser
       THEN /\ resp' = RegisterConflict(RegisteredOwner(email, phone))
            /\ UNCHANGED users
       ELSE RegisterCommit(email, phone)
    /\ UNCHANGED <<env, srepeat, profile_copies, sin, sout, profiles, counters, geo_events, today, challenged, pushed,
                   handlers, sessions, magic_links>>

\* POST or GET /auth/verify with any token the client holds
Verify(tok) ==
    /\ tok \in resp.tokens
    /\ LET u == tok.user_id
       IN  IF ~Found(u)
           THEN /\ resp' = Reply("verify", u, 404, "", {}, tok.scope, WasChallenged(u))
                /\ UNCHANGED users
           ELSE /\ users' = [users EXCEPT ![u].verified = TRUE]
                /\ resp' = Reply("verify", u, 200, "", {Token(u, "onboarding", "", NoSignature)},
                                 tok.scope, WasChallenged(u))
    /\ UNCHANGED <<env, srepeat, profile_copies, sin, sout, profiles, counters, geo_events, today, challenged, pushed,
                   handlers, sessions, magic_links>>

\* POST /auth/onboarding: user_id from the body, else from any bearer token or
\* access_token cookie that decodes; the token's scope is not read
Onboarding(bodyUser, tok, payload) ==
    LET u == IF bodyUser # NoUser THEN bodyUser ELSE tok.user_id
    IN  /\ bodyUser \in Users \cup {NoUser}
        /\ IF u = NoUser
           THEN /\ resp' = Reply("onboarding", NoUser, 401, "", {}, tok.scope, FALSE)
                /\ UNCHANGED <<profiles, users, geo_events>>
           ELSE /\ profiles' = [profiles EXCEPT ![u] = OnboardingSet(@, payload)]
                /\ geo_events' = GeoInsert(geo_events, u, payload.geo)
                /\ users' = IF users[u].exists
                            THEN [users EXCEPT ![u].onboarding_complete = TRUE]
                            ELSE users
                /\ resp' = Reply("onboarding", u, 200, "", {}, tok.scope, WasChallenged(u))
        /\ UNCHANGED <<env, srepeat, profile_copies, sin, sout, counters, today, challenged, pushed, handlers,
                       sessions, magic_links>>

\* POST /behavior-profile.  Its update_one names created_at both under $set and
\* under $setOnInsert, an update MongoDB refuses as conflicting, so a request that
\* passes every gate ends in a server error and writes nothing
BehaviorProfile(bodyUser, tok, verification, risk) ==
    LET u == IF bodyUser # NoUser THEN bodyUser ELSE tok.user_id
        status == IF tok.scope = "none" THEN 401
                  ELSE IF tok.role \notin {"", "user", "admin"} THEN 403
                  ELSE IF verification # "passed" \/ risk = "high" THEN 403
                  ELSE IF u = NoUser THEN 401
                  ELSE IF tok.scope \notin {"", "access", "onboarding"} THEN 403
                  ELSE 500
    IN  /\ bodyUser \in Users \cup {NoUser}
        /\ resp' = Reply("behavior_profile", u, status, "", {}, tok.scope, WasChallenged(u))
        /\ UNCHANGED <<env, srepeat, profile_copies, sin, sout, users, profiles, counters, geo_events, today, challenged, pushed,
                       handlers, sessions, magic_links>>

\* the most further documents per user a behaviour considers
MaxCopies == 2

\* behavior_profiles.insert_one({"user_id": user.id, **behavior_profile, ...}): the
\* collection has no unique index on user_id, so a user who has a document gets
\* another one, which find_one and update_one by user_id do not reach
CompleteInsert(u, payload) ==
    IF profiles[u].exists
    THEN /\ profile_copies[u] < MaxCopies
         /\ profile_copies' = [profile_copies EXCEPT ![u] = @ + 1]
         /\ UNCHANGED profiles
    ELSE /\ profiles' = [profiles EXCEPT ![u] = OnboardingSet(@, payload)]
         /\ UNCHANGED profile_copies

\* POST /auth/complete-onboarding: the user is looked up by email only, and neither
\* a token nor a verified address is asked for
CompleteOnboarding(email, payload) ==
    LET owner == RegisteredOwner(email, "")
    IN  /\ IF email = ""
           THEN /\ resp' = Reply("complete_onboarding", NoUser, 400, "", {}, "none", FALSE)
                /\ UNCHANGED <<users, profiles, profile_copies>>
           ELSE IF owner = NoUser
           THEN /\ resp' = Reply("complete_onboarding", NoUser, 404, "", {}, "none", FALSE)
                /\ UNCHANGED <<users, profiles, profile_copies>>
           ELSE /\ CompleteInsert(owner, payload)
                /\ users' = [users EXCEPT ![owner].onboarding_complete = TRUE]
                /\ resp' = Reply("complete_onboarding", owner, 200, "", {}, "none",
                                 WasChallenged(owner))
        /\ UNCHANGED <<env, srepeat, sin, sout, counters, geo_events, today, challenged, pushed,
                       handlers, sessions, magic_links>>

----------------------------------------------------------------------------
(* Login *)

\* the gates without the onboarding test
LoginGateNoOnboarding(u) ==
    IF ~Found(u) THEN 401
    ELSE IF ~users[u].verified THEN 403
    ELSE 0

\* the gates without the verified and onboarding tests
LoginGateFoundOnly(u) == IF ~Found(u) THEN 401 ELSE 0

\* the gates both login endpoints apply before scoring: 0 when the request passes
LoginGate(u) ==
    IF ~Found(u) THEN 401
    ELSE IF ~users[u].verified THEN 403
    ELSE IF ~users[u].onboarding_complete THEN 403
    ELSE 0

\* the code in the detail of a gate refusal
GateCode(u) ==
    IF ~Found(u) THEN ""
    ELSE IF ~users[u].verified THEN "EMAIL_NOT_VERIFIED"
    ELSE IF ~users[u].onboarding_complete THEN "ONBOARDING_REQUIRED"
    ELSE ""

\* the tokens of a gate refusal: ONBOARDING_REQUIRED carries an onboarding token
GateTokens(u) ==
    IF Found(u) /\ users[u].verified /\ ~users[u].onboarding_complete
    THEN {Token(u, "onboarding", "", NoSignature)} ELSE {}

\* a learner whose $set of baselines and version is dropped once a tracker call failed
LoginLowTrackerFatal(u, req, fault) ==
    LET tracked == TrackNetworks(profiles[u], counters, u, req.m.ip, fault)
        learned == LoginLearn(tracked, tracked, req.ch, req.m)
    IN  IF fault \in {"read", "update"} THEN tracked
        ELSE IF fault \in {"counter", "promote", "demote"}
        THEN [learned EXCEPT !.baselines = profiles[u].baselines,
                             !.baseline_version = profiles[u].baseline_version]
        ELSE learned

\* the profile a low-risk /auth/login leaves behind: tracker calls, then the learner
\* reading the document it is about to update; a failed find_one or update_one
\* leaves the document as the tracker left it
LoginLow(u, req, fault) ==
    LET tracked == TrackNetworks(profiles[u], counters, u, req.m.ip, fault)
    IN  IF fault \in {"read", "update"} THEN tracked
        ELSE LoginLearn(tracked, tracked, req.ch, req.m)

\* trigger_alert in the gates of /auth/login: unknown and unverified users
GateAlert(u) ==
    IF ~Found(u) \/ ~users[u].verified THEN "failed_login" ELSE ""

\* POST /auth/login; alert is the event handed to trigger_alert, reasons tells
\* whether the response carries the reasons of the score
Login(u, req, fault) ==
    /\ u \in Users \cup {NoUser}
    /\ fault \in StoreFaults
    /\ IF LoginGate(u) # 0
       THEN /\ resp' = [Reply("login", u, LoginGate(u), "", GateTokens(u), "none",
                              WasChallenged(u))
                           EXCEPT !.alert = GateAlert(u), !.note = GateCode(u)]
            /\ UNCHANGED <<profiles, counters, geo_events, challenged, pushed>>
       ELSE IF fault = "load"
       THEN /\ resp' = [Reply("login", u, 500, "", {}, "none", challenged[u])
                           EXCEPT !.note = "Internal server error"]
            /\ UNCHANGED <<profiles, counters, geo_events, challenged, pushed>>
       ELSE LET r == ScoreLogin(req.ch, req.m, profiles[u])
            IN  CASE r.level = "high" ->
                       /\ resp' = [Reply("login", u, 403, "high", {}, "none", challenged[u])
                                      EXCEPT !.alert = "high_risk_login", !.reasons = TRUE]
                       /\ challenged' = [challenged EXCEPT ![u] = FALSE]
                       /\ UNCHANGED <<profiles, counters, geo_events, pushed>>
                  [] r.level = "medium" ->
                       /\ resp' = [Reply("login", u, 200, "medium", {}, "none", challenged[u])
                                      EXCEPT !.alert = "medium_risk_login", !.reasons = TRUE]
                       /\ challenged' = [challenged EXCEPT ![u] = TRUE]
                       /\ UNCHANGED <<profiles, counters, geo_events, pushed>>
                  [] OTHER ->
                       /\ profiles' = [profiles EXCEPT ![u] = LoginLow(u, req, fault)]
                       /\ counters' = TrackCounters(counters, u, req.m.ip, fault)
                       /\ geo_events' = IF fault \in {"read", "update", "geo"}
                                        THEN geo_events
                                        ELSE GeoStore(geo_events, u, req.m.geo)
                       /\ pushed' = IF fault \in {"read", "update"} THEN pushed
                                    ELSE [pushed EXCEPT ![u] =
                                        Append(@, profiles'[u].baseline_history[
                                                      Len(profiles'[u].baseline_history)])]
                       /\ challenged' = [challenged EXCEPT ![u] = FALSE]
                       /\ resp' = [Reply("login", u, 200, "low",
                                         {Token(u, "access", users[u].role,
                                                Signature(req.m.device, IpPrefix(req.m.ip)))},
                                         "none", challenged[u])
                                      EXCEPT !.alert = "successful_login", !.reasons = TRUE]
    /\ UNCHANGED <<env, srepeat, profile_copies, sin, sout, users, today, handlers, sessions, magic_links>>

\* POST /auth/jwt/login; its refusals carry the score but not the reasons
JwtLogin(u, req) ==
    /\ u \in Users \cup {NoUser}
    /\ IF LoginGate(u) # 0
       THEN /\ resp' = [Reply("jwt_login", u, LoginGate(u), "", GateTokens(u), "none",
                              WasChallenged(u))
                           EXCEPT !.alert = IF Found(u) THEN "" ELSE "failed_login",
                                  !.note = GateCode(u)]
            /\ UNCHANGED challenged
       ELSE LET r == ScoreLogin(req.ch, req.m, profiles[u])
            IN  IF r.level = "high"
                THEN /\ resp' = [Reply("jwt_login", u, 403, "high", {}, "none", challenged[u])
                                    EXCEPT !.alert = "high_risk_login"]
                     /\ challenged' = [challenged EXCEPT ![u] = FALSE]
                ELSE /\ resp' = Reply("jwt_login", u, 200, r.level, TokenPair(u, users[u].role),
                                      "none", challenged[u])
                     /\ challenged' = [challenged EXCEPT ![u] = (r.level = "medium")]
    /\ UNCHANGED <<env, srepeat, profile_copies, sin, sout, users, profiles, counters, geo_events, today, pushed,
                   handlers, sessions, magic_links>>

----------------------------------------------------------------------------
(* Step-up challenges *)

StepUpMetrics == {LowRequest.m}

HomeAmbient == [screen |-> <<1920, 1080>>, timezone |-> "America/New_York"]

\* the ghost and the history bookkeeping after a learner write for user u
Learned(u) ==
    /\ pushed' = [pushed EXCEPT ![u] = Append(@, profiles'[u].baseline_history[
                                                    Len(profiles'[u].baseline_history)])]
    /\ challenged' = [challenged EXCEPT ![u] = FALSE]

\* the body shared by context-answer and ambient-verify once the challenge passed
StepUpGranted(op, u, m, ambient) ==
    IF ~Found(u)
    THEN /\ resp' = Reply(op, u, 404, "", {}, "none", FALSE)
         /\ UNCHANGED <<profiles, pushed, challenged>>
    ELSE /\ profiles' = [profiles EXCEPT ![u] = StepUpLearn(@, @, m, ambient)]
         /\ Learned(u)
         /\ resp' = Reply(op, u, 200, "low", {Token(u, "access", "", NoSignature)},
                          "none", challenged[u])

\* POST /auth/context-answer
ContextAnswer(u, answer, m) ==
    /\ u \in Users \cup {NoUser}
    /\ IF answer = "new york"
       THEN StepUpGranted("context", u, m, NoAmbient)
       ELSE /\ resp' = Reply("context", u, 200, "failed", {}, "none", WasChallenged(u))
            /\ UNCHANGED <<profiles, pushed, challenged>>
    /\ UNCHANGED <<env, srepeat, profile_copies, sin, sout, users, counters, geo_events, today, handlers, sessions, magic_links>>

\* POST /auth/ambient-verify
AmbientVerify(u, ambient, m) ==
    /\ u \in Users \cup {NoUser}
    /\ IF ambient.timezone = "America/New_York" /\ ambient.screen = <<1920, 1080>>
       THEN StepUpGranted("ambient", u, m, ambient)
       ELSE /\ resp' = Reply("ambient", u, 200, "failed", {}, "none", WasChallenged(u))
            /\ UNCHANGED <<profiles, pushed, challenged>>
    /\ UNCHANGED <<env, srepeat, profile_copies, sin, sout, users, counters, geo_events, today, handlers, sessions, magic_links>>

\* the inline score of behavioral-verify
BehavioralScore(ch, m, p) ==
    LET pd == p.device_fingerprint
        mismatches ==
            {k \in {"browser", "os", "screen", "timezone"} :
                \/ k = "browser" /\ m.device.browser.raw # "" /\ pd.browser.raw # ""
                                 /\ m.device.browser.raw # pd.browser.raw
                \/ k = "os" /\ m.device.os # "" /\ pd.os # "" /\ m.device.os # pd.os
                \/ k = "screen" /\ ScreenPresent(m.device.screen) /\ ScreenPresent(pd.screen)
                                /\ m.device.screen # pd.screen
                \/ k = "timezone" /\ m.device.timezone # "" /\ pd.timezone # ""
                                  /\ m.device.timezone # pd.timezone}
    IN  Min(100,
            (IF ch.type = "typing" THEN TypingPenalty(ch, SubDocumentView(p.typing_pattern)) ELSE 0)
            + (IF ch.type \in {"mouse", "touch"}
               THEN MousePenalty(ch, SubDocumentView(p.mouse_dynamics)) ELSE 0)
            + 20 * Cardinality(mismatches)
            + (IF MissingCoreFields(m.device) # {} THEN 10 ELSE 0)
            + (IF m.geo.pos # 0 /\ p.geo.pos # 0 /\ Abs(m.geo.pos - p.geo.pos) > 50000
               THEN 20 ELSE 0)
            + (IF GeoMissing(m.geo) THEN 10 ELSE 0)
            + (IF m.ip.kind \in {"none", "unknown"} THEN 5 ELSE 0))

\* behavioral-verify: the residual risk up to which the step-up passes
STEPUP_PASS_RISK == 20

\* the learning bound set to the pass bound
StepUpLearnAtPass == STEPUP_PASS_RISK

\* behavioral-verify: the residual risk up to which a passed step-up is learned from
STEPUP_LEARN_RISK == 10

\* POST /auth/behavioral-verify (the schema requires a challenge); risk is the
\* residual score the handler computed
BehavioralVerify(u, req) ==
    /\ u \in Users \cup {NoUser}
    /\ req.ch.type # "none"
    /\ IF ~Found(u)
       THEN /\ resp' = Reply("behavioral", u, 404, "", {}, "none", FALSE)
            /\ UNCHANGED <<profiles, challenged>>
       ELSE LET score == BehavioralScore(req.ch, req.m, profiles[u])
            IN  IF score > STEPUP_PASS_RISK
                THEN /\ resp' = [Reply("behavioral", u, 403, "failed", {}, "none",
                                       challenged[u]) EXCEPT !.risk = score, !.reasons = TRUE]
                     /\ UNCHANGED <<profiles, challenged>>
                ELSE /\ profiles' = IF score <= STEPUP_LEARN_RISK
                                    THEN [profiles EXCEPT ![u] = BehavioralLearn(@, req.ch, req.m)]
                                    ELSE profiles
                     /\ challenged' = [challenged EXCEPT ![u] = FALSE]
                     /\ resp' = [Reply("behavioral", u, 200, "low",
                                       {Token(u, "onboarding", "", NoSignature)},
                                       "none", challenged[u]) EXCEPT !.risk = score]
    /\ UNCHANGED <<env, srepeat, profile_copies, sin, sout, users, counters, geo_events, today, pushed, handlers,
                   sessions, magic_links>>

\* Mongo trusted_devices: no handler inserts into this collection
TrustedDevices == {}

\* POST /auth/trusted-confirm
TrustedConfirm(u, m) ==
    /\ u \in Users \cup {NoUser}
    /\ IF ~Found(u)
       THEN /\ resp' = Reply("trusted_device", u, 404, "", {}, "none", FALSE)
            /\ UNCHANGED challenged
       ELSE IF <<u, m.device, m.ip>> \notin TrustedDevices
       THEN /\ resp' = Reply("trusted_device", u, 403, "medium", {}, "none", challenged[u])
            /\ UNCHANGED challenged
       ELSE /\ resp' = Reply("trusted_device", u, 200, "low",
                             {Token(u, "onboarding", "", NoSignature)}, "none", challenged[u])
            /\ challenged' = [challenged EXCEPT ![u] = FALSE]
    /\ UNCHANGED <<env, srepeat, profile_copies, sin, sout, users, profiles, counters, geo_events, today, pushed, handlers,
                   sessions, magic_links>>

\* the most magic links a behaviour considers
MaxLinks == 1

\* POST /auth/send-magic-link
SendMagicLink(u) ==
    /\ u \in Users \cup {NoUser}
    /\ IF ~Found(u)
       THEN /\ resp' = Reply("send_magic_link", u, 404, "", {}, "none", FALSE)
            /\ UNCHANGED magic_links
       ELSE /\ Len(magic_links) < MaxLinks
            /\ magic_links' = Append(magic_links, [user_id |-> u, used |-> FALSE, expired |-> FALSE])
            /\ resp' = Reply("send_magic_link", u, 200, "medium", {}, "none", challenged[u])
    /\ UNCHANGED <<env, srepeat, profile_copies, sin, sout, users, profiles, counters, geo_events, today, challenged, pushed,
                   handlers, sessions>>

\* the clock passes the expires_at of link k, ten minutes after it was sent
LinkExpires(k) ==
    /\ k \in DOMAIN magic_links
    /\ ~magic_links[k].expired
    /\ magic_links' = [magic_links EXCEPT ![k].expired = TRUE]
    /\ UNCHANGED <<env, srepeat, profile_copies, sin, sout, users, profiles, counters, geo_events, today, resp, challenged,
                   pushed, handlers, sessions>>

\* magic_link_verify without the update_one that marks the entry used
MagicLinkVerifyUnmarked(k) ==
    /\ k \in DOMAIN magic_links
    /\ ~magic_links[k].expired
    /\ resp' = [Reply("magic_link", magic_links[k].user_id, 200, "low",
                       {Token(magic_links[k].user_id, "", "", NoSignature)}, "none",
                       challenged[magic_links[k].user_id]) EXCEPT !.link = k]
    /\ challenged' = [challenged EXCEPT ![magic_links[k].user_id] = FALSE]
    /\ UNCHANGED <<env, srepeat, profile_copies, sin, sout, users, profiles, counters, geo_events, today, pushed, handlers,
                   sessions, magic_links>>

\* GET /auth/magic-link/verify?token=k; note carries the reason logged to stepup_logs
MagicLinkVerify(k) ==
    /\ k \in 1..MaxLinks
    /\ IF k \notin DOMAIN magic_links
       THEN /\ resp' = [Reply("magic_link", NoUser, 404, "", {}, "none", FALSE)
                           EXCEPT !.link = k, !.note = "not_found"]
            /\ UNCHANGED <<magic_links, challenged>>
       ELSE LET entry == magic_links[k]
            IN  IF entry.used \/ entry.expired
                THEN /\ resp' = [Reply("magic_link", entry.user_id, 400, "", {}, "none",
                                       challenged[entry.user_id])
                                    EXCEPT !.link = k,
                                           !.note = IF entry.used THEN "already_used"
                                                    ELSE "expired"]
                     /\ UNCHANGED <<magic_links, challenged>>
                ELSE /\ magic_links' = [magic_links EXCEPT ![k].used = TRUE]
                     /\ challenged' = [challenged EXCEPT ![entry.user_id] = FALSE]
                     /\ resp' = [Reply("magic_link", entry.user_id, 200, "low",
                                       {Token(entry.user_id, "", "", NoSignature)}, "none",
                                       challenged[entry.user_id]) EXCEPT !.link = k]
    /\ UNCHANGED <<env, srepeat, profile_copies, sin, sout, users, profiles, counters, geo_events, today, pushed, handlers,
                   sessions>>

\* POST /auth/jwt/refresh
JwtRefresh(tok, valid) ==
    /\ LET minted == RefreshAccessToken(tok, valid)
       IN  resp' = [Reply("jwt_refresh", IF minted = {} THEN NoUser ELSE tok.user_id,
                          IF minted = {} THEN 401 ELSE 200, "", minted, tok.scope,
                          WasChallenged(tok.user_id))
                       EXCEPT !.note = IF valid THEN "" ELSE "undecodable"]
    /\ UNCHANGED <<env, srepeat, profile_copies, sin, sout, users, profiles, counters, geo_events, today, challenged, pushed,
                   handlers, sessions, magic_links>>

\* Redis webauthn:auth:<challenge_id>: written by /webauthn/auth/begin, which needs a
\* stored credential; credentials need /webauthn/register/begin, which needs a
\* document in Mongo `users`, a collection no handler inserts into
WebauthnChallenges == {}

\* POST /auth/webauthn/auth/complete
WebauthnAuthComplete(u) ==
    /\ u \in Users \cup {NoUser}
    /\ IF u \notin WebauthnChallenges
       THEN resp' = Reply("webauthn", u, 400, "", {}, "none", WasChallenged(u))
       ELSE resp' = Reply("webauthn", u, 200, "low", {}, "none", WasChallenged(u))
    /\ UNCHANGED <<env, srepeat, profile_copies, sin, sout, users, profiles, counters, geo_events, today, challenged, pushed,
                   handlers, sessions, magic_links>>

----------------------------------------------------------------------------
(* Protected resources *)

\* enforce_session_risk acting on high alone
EnforceHighOnly(sid) ==
    IF sid = NoSession \/ ~sessions[sid].exists THEN 0
    ELSE IF sessions[sid].risk_level = "high" THEN 403
    ELSE 0

\* enforce_session_risk: the status it raises, 0 when the request may proceed
EnforceSessionRisk(sid) ==
    IF sid = NoSession \/ ~sessions[sid].exists THEN 0
    ELSE IF sessions[sid].risk_level = "high" THEN 403
    ELSE IF sessions[sid].risk_level = "medium" THEN 401
    ELSE 0

\* require_roles("user", "admin") on the claims of the bearer token: the status it
\* raises, 0 when the claims are handed to the route
RequireRoles(tok, roles) ==
    IF tok = NoToken THEN 401
    ELSE IF (IF tok.role = "" THEN "user" ELSE tok.role) \notin roles THEN 403
    ELSE 0

\* POST /transaction/ for account `target`, with the bearer token tok and the
\* X-Session-ID header sid; status 200 means the route body ran and stored the row
CreateTransaction(tok, target, sid) ==
    /\ target \in Users
    /\ sid \in {NoSession} \cup SessionIds
    /\ LET status ==
               IF EnforceSessionRisk(sid) # 0 THEN EnforceSessionRisk(sid)
               ELSE IF RequireRoles(tok, {"user", "admin"}) # 0
               THEN RequireRoles(tok, {"user", "admin"})
               ELSE IF tok.user_id = NoUser THEN 401
               ELSE IF tok.role # "admin" /\ target # tok.user_id THEN 403
               ELSE IF ~Found(target) THEN 404
               ELSE 200
       IN  resp' = [Reply("transaction", tok.user_id, status, "", {}, tok.scope,
                          WasChallenged(tok.user_id))
                       EXCEPT !.sid = sid,
                              !.note = IF EnforceSessionRisk(sid) = 403 THEN "session_blocked"
                                       ELSE IF EnforceSessionRisk(sid) = 401
                                       THEN "session_step_up" ELSE ""]
    /\ UNCHANGED <<env, srepeat, profile_copies, sin, sout, users, profiles, counters, geo_events, today, challenged, pushed,
                   handlers, sessions, magic_links>>

----------------------------------------------------------------------------
(* The authentication service: every endpoint, one request at a time *)

Init ==
    /\ env = DefaultEnv
    /\ sin = NoInput
    /\ sout = NoResult
    /\ srepeat = NoResult
    /\ EmptyStores

Next ==
    \/ Register(AnnEmail, AnnPhone)
    \/ \E tok \in resp.tokens : Verify(tok)
    \/ \E u \in Users \cup {NoUser}, tok \in resp.tokens \cup {NoToken},
          payload \in OnboardingPayloads : Onboarding(u, tok, payload)
    \/ \E u \in Users \cup {NoUser}, tok \in resp.tokens \cup {NoToken},
          risk \in {"low", "high"} : BehaviorProfile(u, tok, "passed", risk)
    \/ \E u \in Users \cup {NoUser}, req \in LoginRequests :
           Within(u, MaxLearned) /\ Login(u, req, "none")
    \/ \E u \in Users \cup {NoUser}, req \in LoginRequests : JwtLogin(u, req)
    \/ \E tok \in resp.tokens \cup {NoToken}, valid \in BOOLEAN : JwtRefresh(tok, valid)
    \/ \E u \in Users \cup {NoUser}, answer \in {"new york", "boston"}, m \in StepUpMetrics :
           Within(u, MaxLearned) /\ ContextAnswer(u, answer, m)
    \/ \E u \in Users \cup {NoUser}, ambient \in {HomeAmbient, NoAmbient}, m \in StepUpMetrics :
           Within(u, MaxLearned) /\ AmbientVerify(u, ambient, m)
    \/ \E u \in Users \cup {NoUser}, req \in {LowRequest, MediumRequest, ResidualRequest} :
           BehavioralVerify(u, req)
    \/ \E u \in Users \cup {NoUser}, m \in StepUpMetrics : TrustedConfirm(u, m)
    \/ \E u \in Users \cup {NoUser} : SendMagicLink(u)
    \/ \E k \in 1..MaxLinks : LinkExpires(k)
    \/ \E k \in 1..MaxLinks : MagicLinkVerify(k)
    \/ \E u \in Users \cup {NoUser} : WebauthnAuthComplete(u)
    \/ \E tok \in resp.tokens \cup {NoToken}, target \in Users :
           CreateTransaction(tok, target, NoSession)

Spec == Init /\ [][Next]_vars

----------------------------------------------------------------------------
(* Known networks over the calendar: an onboarded user logging in day after day *)

\* a gap between two requests longer than the promotion window and the decay
LongGap == DECAY_DAYS + 10

\* the most consecutive days after a long gap a behaviour considers
MaxRun == 3

\* the calendar days a behaviour visits: a run of days, a long gap, a run of days
Calendar == {w * LongGap + k : w \in 0..1, k \in 0..MaxRun}

\* the most learner invocations per user a behaviour over the calendar considers
MaxVisits == 4

\* the calendar moves on by d days with no request in between
AdvanceDay(d) ==
    /\ d \in {1, LongGap}
    /\ today + d \in Calendar
    /\ today' = today + d
    /\ UNCHANGED <<env, srepeat, profile_copies, sin, sout, users, profiles, counters, geo_events, resp, challenged, pushed,
                   handlers, sessions, magic_links>>

OnboardedRow == [exists |-> TRUE, verified |-> TRUE, onboarding_complete |-> TRUE, role |-> "user",
                 email |-> AnnEmail, phone |-> AnnPhone]

\* the stores after Register, Verify and Onboarding of every user
OnboardedStores ==
    /\ users = [u \in Users |-> OnboardedRow]
    /\ profiles = [u \in Users |-> OnboardedProfile]
    /\ profile_copies = [u \in Users |-> 0]
    /\ counters = {}
    /\ today = 0
    /\ geo_events = UNION {GeoInsert({}, u, OnboardedProfile.geo) : u \in Users}
    /\ resp = Reply("onboarding", 1, 200, "", {}, "none", FALSE)
    /\ challenged = [u \in Users |-> FALSE]
    /\ pushed = [u \in Users |-> <<>>]
    /\ handlers = [h \in Handlers |-> IdleFrame]
    /\ sessions = [s \in SessionIds |-> NoHash]
    /\ magic_links = <<>>

NetInit ==
    /\ env = DefaultEnv
    /\ sin = NoInput
    /\ sout = NoResult
    /\ srepeat = NoResult
    /\ OnboardedStores

\* the login device and typing from an RFC1918 address
LowRequestPrivateIp == Request(SlowTyping, HomeDevice, HomeGeo, PrivateIp)

NetRequests == {LowRequest, LowRequestNewIp, LowRequestPrivateIp}

NetNext ==
    \/ \E u \in Users, req \in NetRequests : Within(u, MaxVisits) /\ Login(u, req, "none")
    \/ \E u \in Users : Within(u, MaxVisits) /\ ContextAnswer(u, "new york", LowRequestNewIp.m)
    \/ \E u \in Users : Within(u, MaxVisits) /\ AmbientVerify(u, HomeAmbient, LowRequestNewIp.m)
    \/ \E d \in {1, LongGap} : AdvanceDay(d)

SpecNet == NetInit /\ [][NetNext]_vars

----------------------------------------------------------------------------
(* Store failures during /auth/login *)

\* the last calendar day a behaviour with store failures reaches
MaxFaultDays == 2

FaultRequests == {LowRequest, LowRequestNewIp}

FaultNext ==
    \/ \E u \in Users, req \in FaultRequests, fault \in StoreFaults :
           Within(u, MaxVisits) /\ Login(u, req, fault)
    \/ today < MaxFaultDays /\ AdvanceDay(1)

SpecFault == NetInit /\ [][FaultNext]_vars

----------------------------------------------------------------------------
(* Magic link verification: magic_link_verify split at its awaits *)

\* magic_link_verify up to the answer of find_one({"token": k})
MagicVerifyBegin(h, k) ==
    /\ handlers[h].pc = "idle"
    /\ k \in 1..MaxLinks
    /\ handlers' = [handlers EXCEPT ![h] =
                        [IdleFrame EXCEPT !.pc = "found", !.kind = "magic_link", !.link = k,
                                          !.entry = IF k \in DOMAIN magic_links
                                                    THEN magic_links[k] ELSE NoEntry]]
    /\ UNCHANGED <<env, srepeat, profile_copies, sin, sout, users, profiles, counters, geo_events, today, resp,
                   challenged, pushed, sessions, magic_links>>

\* magic_link_verify from the answer of find_one on: the tests on the entry it
\* read, then update_one({"token": k}, {"$set": {"used": True}}) and the token
MagicVerifyEnd(h) ==
    /\ handlers[h].pc = "found"
    /\ handlers[h].kind = "magic_link"
    /\ LET k == handlers[h].link
           entry == handlers[h].entry
       IN  IF entry = NoEntry
           THEN /\ resp' = [Reply("magic_link", NoUser, 404, "", {}, "none", FALSE)
                               EXCEPT !.link = k, !.note = "not_found"]
                /\ UNCHANGED <<magic_links, challenged>>
           ELSE IF entry.used \/ magic_links[k].expired
           THEN /\ resp' = [Reply("magic_link", entry.user_id, 400, "", {}, "none",
                                   challenged[entry.user_id])
                               EXCEPT !.link = k,
                                      !.note = IF entry.used THEN "already_used" ELSE "expired"]
                /\ UNCHANGED <<magic_links, challenged>>
           ELSE /\ magic_links' = [magic_links EXCEPT ![k].used = TRUE]
                /\ challenged' = [challenged EXCEPT ![entry.user_id] = FALSE]
                /\ resp' = [Reply("magic_link", entry.user_id, 200, "low",
                                   {Token(entry.user_id, "", "", NoSignature)}, "none",
                                   challenged[entry.user_id]) EXCEPT !.link = k]
    /\ handlers' = [handlers EXCEPT ![h] = IdleFrame]
    /\ UNCHANGED <<env, srepeat, profile_copies, sin, sout, users, profiles, counters, geo_events, today, pushed,
                   sessions>>

MagicNext ==
    \/ \E u \in Users : SendMagicLink(u)
    \/ \E k \in 1..MaxLinks : LinkExpires(k)
    \/ \E h \in Handlers, k \in 1..MaxLinks : MagicVerifyBegin(h, k)
    \/ \E h \in Handlers : MagicVerifyEnd(h)

SpecMagic == NetInit /\ [][MagicNext]_vars

----------------------------------------------------------------------------
(* The distinct-day counter under concurrent logins: update_known_network_counter
   split at its awaits.  The rows of this behaviour carry the _id of their
   document, so that two documents with the same key are two rows. *)

SameKey(r, q) == r.user_id = q.user_id /\ r.prefix = q.prefix /\ r.day = q.day

\* insert_one without the unique index on (user_id, prefix, day)
InsertCounterNoIndex(rows, row) == rows \cup {[row EXCEPT !.id = Cardinality(rows) + 1]}

\* insert_one on known_network_counters: the unique index on (user_id, prefix, day)
\* refuses a second document with the key, and update_known_network_counter
\* swallows the DuplicateKeyError
InsertCounter(rows, row) ==
    IF \E r \in rows : SameKey(r, row) THEN rows
    ELSE rows \cup {[row EXCEPT !.id = Cardinality(rows) + 1]}

\* /auth/login up to the tracker: gates passed and the score is low
CounterLoginBegin(h, u, req) ==
    /\ handlers[h].pc = "idle"
    /\ LoginGate(u) = 0
    /\ ScoreLogin(req.ch, req.m, profiles[u]).level = "low"
    /\ IpTruthy(req.m.ip)
    /\ IpPrefix(req.m.ip) # ""
    /\ handlers' = [handlers EXCEPT ![h] = [IdleFrame EXCEPT !.pc = "find", !.kind = "login",
                                                            !.user = u, !.ch = req.ch,
                                                            !.m = req.m]]
    /\ UNCHANGED <<env, srepeat, profile_copies, sin, sout, users, profiles, counters, geo_events, today, resp,
                   challenged, pushed, sessions, magic_links>>

\* doc = await coll.find_one({"user_id", "prefix", "day"}); with no row the frame
\* keeps the key the insert will carry
CounterFind(h) ==
    /\ handlers[h].pc = "find"
    /\ LET key   == [id |-> 0, user_id |-> handlers[h].user,
                     prefix |-> IpPrefix(handlers[h].m.ip), day |-> today, last_seen |-> -1]
           found == {r \in counters : SameKey(r, key)}
       IN  handlers' = [handlers EXCEPT ![h].pc = "upsert",
                                        ![h].doc = IF found = {} THEN key
                                                   ELSE CHOOSE r \in found : TRUE]
    /\ UNCHANGED <<env, srepeat, profile_copies, sin, sout, users, profiles, counters, geo_events, today, resp,
                   challenged, pushed, sessions, magic_links>>

\* update_one({"_id": doc["_id"]}) when a row was read, insert_one otherwise
CounterUpsert(h) ==
    /\ handlers[h].pc = "upsert"
    /\ LET doc == handlers[h].doc
       IN  counters' = IF doc.id # 0
                       THEN {IF r.id = doc.id THEN [r EXCEPT !.last_seen = today] ELSE r :
                                r \in counters}
                       ELSE InsertCounter(counters, [doc EXCEPT !.last_seen = today])
    /\ handlers' = [handlers EXCEPT ![h].pc = "counted"]
    /\ UNCHANGED <<env, srepeat, profile_copies, sin, sout, users, profiles, geo_events, today, resp, challenged,
                   pushed, sessions, magic_links>>

\* the rest of the low-risk login: promotion, demotion, the learner and the answer
CounterLoginEnd(h) ==
    /\ handlers[h].pc = "counted"
    /\ LET u   == handlers[h].user
           req == [ch |-> handlers[h].ch, m |-> handlers[h].m]
       IN  /\ profiles' = [profiles EXCEPT ![u] = LoginLow(u, req, "counter")]
           /\ geo_events' = GeoStore(geo_events, u, req.m.geo)
           /\ pushed' = [pushed EXCEPT ![u] =
                             Append(@, profiles'[u].baseline_history[
                                           Len(profiles'[u].baseline_history)])]
           /\ challenged' = [challenged EXCEPT ![u] = FALSE]
           /\ resp' = [Reply("login", u, 200, "low",
                             {Token(u, "access", users[u].role,
                                    Signature(req.m.device, IpPrefix(req.m.ip)))},
                             "none", challenged[u])
                          EXCEPT !.alert = "successful_login", !.reasons = TRUE]
    /\ handlers' = [handlers EXCEPT ![h] = IdleFrame]
    /\ UNCHANGED <<env, srepeat, profile_copies, sin, sout, users, counters, today, sessions, magic_links>>

\* the last calendar day a behaviour of concurrent counters reaches
MaxCounterDays == 1

CounterNext ==
    \/ \E h \in Handlers, u \in Users, req \in FaultRequests :
           Within(u, MaxVisits) /\ CounterLoginBegin(h, u, req)
    \/ \E h \in Handlers : CounterFind(h)
    \/ \E h \in Handlers : CounterUpsert(h)
    \/ \E h \in Handlers : CounterLoginEnd(h)
    \/ today < MaxCounterDays /\ AdvanceDay(1)

SpecCounter == NetInit /\ [][CounterNext]_vars

----------------------------------------------------------------------------
(* Malformed signals *)

\* a value that is present but not a number, such as "fast" or null
NonNumeric == -2

MalformedWpm == [SlowTyping EXCEPT !.wpm = NonNumeric]

MalformedErrorRate == [SlowTyping EXCEPT !.errorRate = NonNumeric]

\* typing_penalty converts with float(cur.get('wpm', 0)) and
\* float(cur.get('errorRate', 0)), which raise on a value that is not a number
TypingPenaltyRaises(cur) == cur.wpm = NonNumeric \/ cur.errorRate = NonNumeric

\* the exception score_login lets through
Raised == [risk_score |-> -1, level |-> "raised", reasons |-> <<>>, missing_signals |-> -1]

\* score_login on signals that may be malformed: the call of typing_penalty is not
\* inside a try
ScoreLoginOutcome(ch, m, p) ==
    IF ch.type = "typing" /\ TypingPenaltyRaises(ch) THEN Raised ELSE ScoreLogin(ch, m, p)

MalformedInit ==
    /\ env = DefaultEnv
    /\ sin \in [ch : {SlowTyping, MalformedWpm, MalformedErrorRate},
                 m : {x \in ScoreMetrics : x.ip_asn = "" /\ x.scroll = -1},
                 p : ScoreProfiles]
    /\ sout = NoResult
    /\ srepeat = NoResult
    /\ EmptyStores

ScoreMalformedCall ==
    /\ sout = NoResult
    /\ sout' = ScoreLoginOutcome(sin.ch, sin.m, sin.p)
    /\ UNCHANGED <<env, srepeat, profile_copies, sin, users, profiles, counters, geo_events, today, resp,
                   challenged, pushed, handlers, sessions, magic_links>>

MalformedNext == ScoreMalformedCall

SpecMalformed == MalformedInit /\ [][MalformedNext]_vars

----------------------------------------------------------------------------
(* score_transaction *)

default_rules ==
    [device_mismatch |-> 50, unusual_time |-> 30, large_amount |-> 40, rapid_repeat |-> 30,
     location_mismatch |-> 40, high_threshold |-> 70, medium_threshold |-> 40]

\* the entries user_tx_history keeps per user
TxHistoryKept == 10

\* score_transaction at the given hour, with `recent` entries of the user's history
\* less than a minute old; "" stands for an absent text field, 0 for an absent
\* user_id and -1 for an absent amount
ScoreTransaction(tx, profile, hour, recent) ==
    LET device   == tx.device_info # profile.device_fingerprint
        location == tx.location # profile.location
        time     == hour < 8 \/ hour > 20
        amount   == (IF tx.amount = -1 THEN 0 ELSE tx.amount) > default_rules.large_amount
        rapid    == recent >= 3
        score    == (IF device THEN default_rules.device_mismatch ELSE 0)
                    + (IF location THEN default_rules.location_mismatch ELSE 0)
                    + (IF time THEN default_rules.unusual_time ELSE 0)
                    + (IF amount THEN default_rules.large_amount ELSE 0)
                    + (IF rapid THEN default_rules.rapid_repeat ELSE 0)
    IN  [risk_score |-> score,
         level |-> IF score >= default_rules.high_threshold THEN "high"
                   ELSE IF score >= default_rules.medium_threshold THEN "medium" ELSE "low",
         reasons |-> Reason(device, "Device mismatch") \o Reason(location, "Location mismatch")
                     \o Reason(time, "Unusual transaction time")
                     \o Reason(amount, "Large transaction amount")
                     \o Reason(rapid, "Rapid repeat transactions"),
         missing_signals |-> -1]

TxInit ==
    /\ env = DefaultEnv
    /\ sin \in [tx : [user_id : {0, 1}, device_info : {"", "dev-a"}, location : {"", "nyc"},
                       amount : {-1, 100}],
                 profile : [device_fingerprint : {"", "dev-a"}, location : {"", "nyc"}],
                 hour : {2, 12}, recent : {0}]
    /\ sout = NoResult
    /\ srepeat = NoResult
    /\ EmptyStores

\* one call of score_transaction; it appends the transaction to the history of its
\* user_id (None included) and keeps the last ten, all within the same minute
ScoreTransactionCall ==
    /\ sout' = ScoreTransaction(sin.tx, sin.profile, sin.hour, sin.recent)
    /\ sin' = [sin EXCEPT !.recent = Min(@ + 1, TxHistoryKept)]
    /\ UNCHANGED <<env, srepeat, profile_copies, users, profiles, counters, geo_events, today, resp,
                   challenged, pushed, handlers, sessions, magic_links>>

TxNext == ScoreTransactionCall

SpecTx == TxInit /\ [][TxNext]_vars

----------------------------------------------------------------------------
(* The client IP: what each handler takes from the request *)

\* the first entry of X-Forwarded-For, NoIp for an absent header
FirstForwarded(xff) == IF xff = <<>> THEN NoIp ELSE Head(xff)

\* the first of the candidates that is set
FirstSet(candidates) ==
    LET set == SelectSeq(candidates, LAMBDA ip : ip # NoIp)
    IN  IF set = <<>> THEN NoIp ELSE Head(set)

\* get_client_ip_from_headers, used by record_telemetry: CF-Connecting-IP, first
\* X-Forwarded-For, X-Real-IP, socket peer
GetClientIpFromHeaders(t) == FirstSet(<<t.cf, FirstForwarded(t.xff), t.xri, t.peer>>)

\* /util/ip: the same order, "unknown" when nothing is set
ExtractClientIp(t) ==
    IF GetClientIpFromHeaders(t) = NoIp THEN UnknownIp ELSE GetClientIpFromHeaders(t)

\* /auth/login and the learners of context-answer and ambient-verify: metrics.ip of
\* the request body first, the headers and the peer only when the body has none
LoginClientIp(t) == FirstSet(<<t.body, t.cf, FirstForwarded(t.xff), t.xri, t.peer>>)

\* ambient-verify, for the signature it mints: body, CF-Connecting-IP, socket peer
AmbientClientIp(t) == FirstSet(<<t.body, t.cf, t.peer>>)

\* the requests of the derivation: each header absent or carrying an address
Transports ==
    [body : {NoIp, HomeIp, NewIp}, cf : {NoIp, HomeIp, NewIp},
     xff : {<<>>, <<HomeIp>>, <<NewIp, HomeIp>>}, xri : {NoIp, HomeIp, NewIp},
     peer : {NoIp, HomeIp, NewIp}]

IpInit ==
    /\ env = DefaultEnv
    /\ sin \in Transports
    /\ sout = NoResult
    /\ srepeat = NoResult
    /\ EmptyStores

\* one request through every place that derives the client IP
DeriveClientIp ==
    /\ sout = NoResult
    /\ sout' = [login |-> LoginClientIp(sin), step_up |-> LoginClientIp(sin),
                ambient |-> AmbientClientIp(sin), telemetry |-> GetClientIpFromHeaders(sin),
                util |-> ExtractClientIp(sin)]
    /\ UNCHANGED <<env, srepeat, profile_copies, sin, users, profiles, counters, geo_events, today, resp, challenged,
                   pushed, handlers, sessions, magic_links>>

IpNext == DeriveClientIp

SpecIp == IpInit /\ [][IpNext]_vars

----------------------------------------------------------------------------
(* Concurrent learner invocations: handler tasks suspended at their awaits *)

\* /auth/login up to the learner's read: the gates pass, the score is low, the
\* telemetry and tracker calls have run.  A login that is refused, challenged or
\* blocked returns before the learner and is the Login action above.
LoginBegin(h, u, req) ==
    /\ handlers[h].pc = "idle"
    /\ LoginGate(u) = 0
    /\ ScoreLogin(req.ch, req.m, profiles[u]).level = "low"
    /\ profiles' = [profiles EXCEPT ![u] = TrackNetworks(@, counters, u, req.m.ip, "none")]
    /\ counters' = TrackCounters(counters, u, req.m.ip, "none")
    /\ handlers' = [handlers EXCEPT ![h] = [IdleFrame EXCEPT !.pc = "read", !.kind = "login",
                                                            !.user = u, !.ch = req.ch,
                                                            !.m = req.m]]
    /\ UNCHANGED <<env, srepeat, profile_copies, sin, sout, users, geo_events, today, resp, challenged, pushed,
                   sessions, magic_links>>

\* /auth/context-answer and /auth/ambient-verify up to the learner's read: the
\* challenge passed, the user was resolved and the access token created
StepUpBegin(h, kind, u, m, ambient) ==
    /\ handlers[h].pc = "idle"
    /\ kind \in {"context", "ambient"}
    /\ kind = "ambient" => (ambient.timezone = "America/New_York" /\ ambient.screen = <<1920, 1080>>)
    /\ Found(u)
    /\ handlers' = [handlers EXCEPT ![h] = [IdleFrame EXCEPT !.pc = "read", !.kind = kind,
                                                            !.user = u, !.m = m,
                                                            !.ambient = ambient]]
    /\ UNCHANGED <<env, srepeat, profile_copies, sin, sout, users, profiles, counters, geo_events, today, resp, challenged,
                   pushed, sessions, magic_links>>

\* existing = await behavior_profiles.find_one({"user_id": user.id}) or {}
ReadExisting(h) ==
    /\ handlers[h].pc = "read"
    /\ handlers' = [handlers EXCEPT ![h].existing = profiles[handlers[h].user],
                                    ![h].pc = "write"]
    /\ UNCHANGED <<env, srepeat, profile_copies, sin, sout, users, profiles, counters, geo_events, today, resp, challenged,
                   pushed, sessions, magic_links>>

\* await behavior_profiles.update_one({"user_id": user.id}, update_ops, upsert=True)
\* and the rest of the handler, which awaits no other profile operation
WriteProfile(h) ==
    LET f == handlers[h]
        u == f.user
    IN  /\ f.pc = "write"
        /\ profiles' = [profiles EXCEPT ![u] =
                           IF f.kind = "login" THEN LoginLearn(@, f.existing, f.ch, f.m)
                           ELSE StepUpLearn(@, f.existing, f.m, f.ambient)]
        /\ Learned(u)
        /\ resp' = Reply(f.kind, u, 200, "low",
                         {IF f.kind = "login"
                          THEN Token(u, "access", users[u].role,
                                     Signature(f.m.device, IpPrefix(f.m.ip)))
                          ELSE Token(u, "access", "", NoSignature)},
                         "none", challenged[u])
        /\ geo_events' = IF f.kind = "login" THEN GeoStore(geo_events, u, f.m.geo)
                          ELSE geo_events
        /\ handlers' = [handlers EXCEPT ![h] = IdleFrame]
        /\ UNCHANGED <<env, srepeat, profile_copies, sin, sout, users, counters, today, sessions, magic_links>>

LearnInit ==
    /\ env = DefaultEnv
    /\ sin = NoInput
    /\ sout = NoResult
    /\ srepeat = NoResult
    /\ OnboardedStores

LearnNext ==
    \/ \E h \in Handlers, u \in Users : Within(u, MaxVersion) /\ LoginBegin(h, u, LowRequest)
    \/ \E h \in Handlers, u \in Users :
           Within(u, MaxVersion) /\ StepUpBegin(h, "context", u, LowRequest.m, NoAmbient)
    \/ \E h \in Handlers : ReadExisting(h)
    \/ \E h \in Handlers : WriteProfile(h)
    \/ \E u \in Users, payload \in OnboardingPayloads : Onboarding(u, NoToken, payload)
    \/ \E u \in Users : BehavioralVerify(u, LowRequest)

SpecLearn == LearnInit /\ [][LearnNext]_vars

----------------------------------------------------------------------------
(* Registration and onboarding: register split at its awaits *)

\* the most rows of the users table a behaviour considers
MaxAccounts == 2

AccountIds == 1..MaxAccounts

BobEmail == "bob@example.com"

RegisterEmails == {AnnEmail, BobEmail}

RegisterPhones == {"", AnnPhone}

\* register up to db.commit(): the lookups by email and by phone
RegisterBegin(h, email, phone) ==
    /\ handlers[h].pc = "idle"
    /\ IF RegisteredOwner(email, phone) # NoUser
       THEN /\ resp' = RegisterConflict(RegisteredOwner(email, phone))
            /\ UNCHANGED handlers
       ELSE /\ handlers' = [handlers EXCEPT ![h] = [IdleFrame EXCEPT !.pc = "commit",
                                                                    !.kind = "register",
                                                                    !.email = email,
                                                                    !.phone = phone]]
            /\ UNCHANGED resp
    /\ UNCHANGED <<env, srepeat, profile_copies, sin, sout, users, profiles, counters, geo_events, today, challenged,
                   pushed, sessions, magic_links>>

\* register from db.commit() on
RegisterEnd(h) ==
    /\ handlers[h].pc = "commit"
    /\ RegisterCommit(handlers[h].email, handlers[h].phone)
    /\ handlers' = [handlers EXCEPT ![h] = IdleFrame]
    /\ UNCHANGED <<env, srepeat, profile_copies, sin, sout, profiles, counters, geo_events, today, challenged, pushed,
                   sessions, magic_links>>

\* an empty users table, or one where Ann is registered, verified and onboarded
RegisterInit ==
    /\ env = DefaultEnv
    /\ sin = NoInput
    /\ sout = NoResult
    /\ srepeat = NoResult
    /\ \E row \in {NoRow, OnboardedRow} :
           /\ users = [i \in AccountIds |-> IF i = 1 THEN row ELSE NoRow]
           /\ profiles = [i \in AccountIds |->
                             IF i = 1 /\ row.exists THEN OnboardedProfile ELSE EmptyProfile]
    /\ profile_copies = [i \in AccountIds |-> 0]
    /\ counters = {}
    /\ geo_events = {}
    /\ today = 0
    /\ resp = NoResp
    /\ challenged = [i \in AccountIds |-> FALSE]
    /\ pushed = [i \in AccountIds |-> <<>>]
    /\ handlers = [h \in Handlers |-> IdleFrame]
    /\ sessions = [sid \in SessionIds |-> NoHash]
    /\ magic_links = <<>>

RegisterNext ==
    \/ \E h \in Handlers, email \in RegisterEmails, phone \in RegisterPhones :
           RegisterBegin(h, email, phone)
    \/ \E h \in Handlers : RegisterEnd(h)
    \/ \E u \in Users, payload \in OnboardingPayloads : Onboarding(u, NoToken, payload)
    \/ \E email \in RegisterEmails \cup {""}, payload \in OnboardingPayloads :
           CompleteOnboarding(email, payload)

SpecRegister == RegisterInit /\ [][RegisterNext]_vars

----------------------------------------------------------------------------
(* Session guardian *)

\* score_session; pointer_speed_std is in tenths
ScoreSession(tel, p) ==
    LET devPen ==
            IF ~DeviceEmpty(p.device_fingerprint) /\ ~DeviceEmpty(tel.device)
            THEN DevicePenalty(CanonicalizeDevice(tel.device),
                               CanonicalizeDevice(p.device_fingerprint)) \div 2
            ELSE 0
        geoPen ==
            IF p.geo.present /\ tel.geo.present
            THEN (GeoPenalty(tel.geo, p.geo) \div 2)
                 + (IF tel.geo.accuracy # -1 /\ tel.geo.accuracy > 500
                    THEN Max(0, CityFallbackPenalty(tel.ip_geo, p.ip_geo) - 10) \div 2 ELSE 0)
            ELSE 0
        ipPen ==
            IF tel.ip.kind \in {"none", "unknown"} THEN 3
            ELSE (IF KnownNetworks(p) # {} /\ ~IpInPrefixes(tel.ip, KnownNetworks(p))
                  THEN IpNudge(3, tel.ip_asn) ELSE 0)
                 + (IF env.deny # {} /\ IpInPrefixes(tel.ip, env.deny) THEN 20 ELSE 0)
                 + (IF env.allow # {} /\ ~IpInPrefixes(tel.ip, env.allow)
                    THEN IpNudge(3, tel.ip_asn) ELSE 0)
        anomalies ==
            (IF tel.idle_jitter_ms > 3000 THEN 5 ELSE 0)
            + (IF tel.pointer_speed_std > 15 THEN 5 ELSE 0)
            + (IF tel.nav_bf_usage > 5 THEN 3 ELSE 0)
        risk == Min(100, Max(0, devPen + geoPen + ipPen + anomalies))
    IN  [risk_score |-> risk, level |-> LevelOf(risk)]

\* the claims ingest_telemetry hands to validate_behavior_signature: it decodes with
\* os.environ.get("JWT_SECRET", "secret"), the tokens are signed with the secret of
\* token_service, which differ when JWT_SECRET is not set
IngestClaims(tok) == IF tok # NoToken /\ env.jwt_secret THEN tok ELSE NoToken

\* validate_behavior_signature detects a mismatch
SignatureMismatch(claims, device, ip) ==
    /\ claims.behavior_signature.set
    /\ claims.behavior_signature # Signature(device, IpPrefix(ip))

\* validate_behavior_signature on a mismatch: hset of four fields, then expire
MarkMismatch(hash) ==
    [hash EXCEPT !.exists = TRUE, !.risk_level = "medium", !.risk_score = 50,
                 !.reason = "behavior_signature_mismatch", !.ttl = SESSION_TTL]

\* ingest_telemetry's own hset of user_id, risk_level, risk_score, then expire
StoreResult(hash, u, result) ==
    [hash EXCEPT !.exists = TRUE, !.user_id = u, !.risk_level = result.level,
                 !.risk_score = result.risk_score, !.ttl = SESSION_TTL]

\* POST /session/telemetry.  `loaded` is what the profile load gave the handler:
\* it calls find_one without awaiting it, so with the Motor client the value is a
\* pending future, on which score_session raises, and with a client answering in
\* place it is the document
IngestTelemetry(sid, u, tel, tok, loaded) ==
    /\ sid \in SessionIds
    /\ u \in Users
    /\ loaded \in {"document", "awaitable"}
    /\ LET mismatch == tok # NoToken
                       /\ SignatureMismatch(IngestClaims(tok), tel.device, tel.ip)
           marked == IF mismatch THEN MarkMismatch(sessions[sid]) ELSE sessions[sid]
           result == ScoreSession(tel, profiles[u])
           note == IF mismatch THEN "behavior_signature_mismatch" ELSE ""
       IN  IF loaded = "awaitable"
           THEN /\ sessions' = [sessions EXCEPT ![sid] = marked]
                /\ resp' = [Reply("ingest", u, 500, "", {}, tok.scope, WasChallenged(u))
                               EXCEPT !.sid = sid, !.note = note]
           ELSE /\ sessions' = [sessions EXCEPT ![sid] = StoreResult(marked, u, result)]
                /\ resp' = [Reply("ingest", u, 200, result.level, {}, tok.scope, WasChallenged(u))
                               EXCEPT !.sid = sid, !.note = note, !.risk = result.risk_score]
    /\ UNCHANGED <<env, srepeat, profile_copies, sin, sout, users, profiles, counters, geo_events, today, challenged, pushed,
                   handlers, magic_links>>

\* half of the session TTL passes; Redis drops a key whose TTL ran out and keeps
\* a key that has no TTL (ttl -1)
SessionTick(sid) ==
    /\ sid \in SessionIds
    /\ sessions[sid].exists
    /\ sessions' = [sessions EXCEPT ![sid] =
                       IF @.ttl = -1 THEN @
                       ELSE IF @.ttl - (SESSION_TTL \div 2) <= 0 THEN NoHash
                       ELSE [@ EXCEPT !.ttl = @ - (SESSION_TTL \div 2)]]
    /\ UNCHANGED <<env, srepeat, profile_copies, sin, sout, users, profiles, counters, geo_events, today, resp, challenged,
                   pushed, handlers, magic_links>>

\* the token of the low-risk login the session started with
LoginToken(u) == Token(u, "access", "user", Signature(LowRequest.m.device, IpPrefix(LowRequest.m.ip)))

Telemetry(device, geo, ip, idle, pointer, nav) ==
    [device |-> device, geo |-> geo, ip |-> ip, ip_asn |-> "", ip_geo |-> NoIpGeo,
     idle_jitter_ms |-> idle, pointer_speed_std |-> pointer, nav_bf_usage |-> nav]

\* calm and erratic samples from the login device, another network, another device
Telemetries ==
    {Telemetry(d, g, ip, a[1], a[2], a[3]) :
        d \in {HomeDevice, OtherDevice}, g \in {HomeGeo, FarGeo}, ip \in {HomeIp, NewIp, NoIp},
        a \in {<<-1, -1, -1>>, <<5000, 20, 7>>}}

\* risk engine harness: score_session on the drawn metrics and profile, with drawn
\* in-session anomalies; its result has no missing_signals
ScoreSessionCall(idle, pointer, nav) ==
    /\ sout = NoResult
    /\ LET tel == [Telemetry(sin.m.device, sin.m.geo, sin.m.ip, idle, pointer, nav)
                     EXCEPT !.ip_asn = sin.m.ip_asn, !.ip_geo = sin.m.ip_geo]
           result == ScoreSession(tel, sin.p)
       IN  sout' = [risk_score |-> result.risk_score, level |-> result.level,
                    missing_signals |-> -1]
    /\ UNCHANGED <<env, srepeat, profile_copies, sin, users, profiles, counters, geo_events, today, resp, challenged,
                   pushed, handlers, sessions, magic_links>>

\* score_login called again with the arguments, profile and environment of the
\* call that returned sout
ScoreRepeat ==
    /\ sout # NoResult
    /\ sout.missing_signals # -1
    /\ srepeat = NoResult
    /\ srepeat' = ScoreLogin(sin.ch, sin.m, sin.p)
    /\ UNCHANGED <<env, sin, sout, profile_copies, users, profiles, counters, geo_events, today, resp,
                   challenged, pushed, handlers, sessions, magic_links>>

ScoreNext ==
    \/ ScoreCall
    \/ ScoreRepeat
    \/ \E idle \in {-1, 5000}, pointer \in {-1, 20}, nav \in {-1, 7} :
           ScoreSessionCall(idle, pointer, nav)

SpecScore == ScoreInit /\ [][ScoreNext]_vars

\* GET /session/status/{session_id}: hgetall of the key, {} when it is absent
SessionStatus(sid) ==
    /\ sid \in SessionIds
    /\ resp' = [Reply("status", sessions[sid].user_id, 200, sessions[sid].risk_level, {},
                      "none", FALSE)
                   EXCEPT !.sid = sid, !.note = sessions[sid].reason,
                          !.risk = sessions[sid].risk_score]
    /\ UNCHANGED <<env, srepeat, profile_copies, sin, sout, users, profiles, counters, geo_events, today, challenged,
                   pushed, handlers, sessions, magic_links>>

\* the stores after Register, Verify, Onboarding and one low-risk /auth/login
SessionInit ==
    /\ env \in {DefaultEnv, [DefaultEnv EXCEPT !.jwt_secret = FALSE]}
    /\ sin = NoInput
    /\ sout = NoResult
    /\ srepeat = NoResult
    /\ today = 0
    /\ users = [u \in Users |-> OnboardedRow]
    /\ profile_copies = [u \in Users |-> 0]
    /\ profiles = [u \in Users |->
                      LoginLearn(OnboardedProfile, OnboardedProfile, LowRequest.ch, LowRequest.m)]
    /\ counters = {[user_id |-> u, prefix |-> IpPrefix(LowRequest.m.ip), day |-> 0,
                    last_seen |-> 0] : u \in Users}
    /\ geo_events = UNION {GeoStore(GeoInsert({}, u, OnboardedProfile.geo), u, LowRequest.m.geo) :
                              u \in Users}
    /\ resp = Reply("login", 1, 200, "low", {LoginToken(1)}, "none", FALSE)
    /\ challenged = [u \in Users |-> FALSE]
    /\ pushed = [u \in Users |->
                    <<HistoryEntry(OnboardedProfile,
                                   UpdatedBaselines(OnboardedProfile.baselines, LowRequest.ch))>>]
    /\ handlers = [h \in Handlers |-> IdleFrame]
    /\ sessions = [s \in SessionIds |-> NoHash]
    /\ magic_links = <<>>

SessionNext ==
    \/ \E sid \in SessionIds, u \in Users, tel \in Telemetries, loaded \in {"document", "awaitable"} :
           \E tok \in {NoToken, LoginToken(u)} : IngestTelemetry(sid, u, tel, tok, loaded)
    \/ \E sid \in SessionIds : SessionTick(sid)
    \/ \E u \in Users, sid \in SessionIds :
           \E tok \in {NoToken, LoginToken(u)} : CreateTransaction(tok, u, sid)
    \/ \E sid \in SessionIds : SessionStatus(sid)

SpecSession == SessionInit /\ [][SessionNext]_vars

----------------------------------------------------------------------------
(* Concurrent ingests: ingest_telemetry split at its awaits on the session store *)

\* HSET of the mismatch mapping; a key that is new has no TTL until EXPIRE runs
HsetMismatch(hash) ==
    [hash EXCEPT !.exists = TRUE, !.risk_level = "medium", !.risk_score = 50,
                 !.reason = "behavior_signature_mismatch"]

\* HSET of ingest_telemetry's mapping; the fields it does not name stay
HsetResult(hash, u, result) ==
    [hash EXCEPT !.exists = TRUE, !.user_id = u, !.risk_level = result.level,
                 !.risk_score = result.risk_score]

\* EXPIRE key 3600; it does nothing on a key that is absent
Expire(hash) == IF hash.exists THEN [hash EXCEPT !.ttl = SESSION_TTL] ELSE hash

\* the exception score_session raises on a profile that is a pending future
ScoreRaised == [risk_score |-> -1, level |-> "raised"]

\* POST /session/telemetry up to its first store call: the profile is loaded, the
\* token decoded and the signature compared
IngestBegin(h, sid, u, tel, tok, loaded) ==
    /\ handlers[h].pc = "idle"
    /\ sid \in SessionIds
    /\ u \in Users
    /\ loaded \in {"document", "awaitable"}
    /\ LET mismatch == tok # NoToken
                       /\ SignatureMismatch(IngestClaims(tok), tel.device, tel.ip)
       IN  handlers' = [handlers EXCEPT ![h] =
               [IdleFrame EXCEPT !.pc = IF mismatch THEN "mark_hset" ELSE "score",
                                 !.kind = "ingest", !.user = u, !.sid = sid,
                                 !.scope = tok.scope, !.mismatch = mismatch,
                                 !.result = IF loaded = "awaitable" THEN ScoreRaised
                                            ELSE ScoreSession(tel, profiles[u])]]
    /\ UNCHANGED <<env, srepeat, profile_copies, sin, sout, users, profiles, counters, geo_events, today, resp,
                   challenged, pushed, sessions, magic_links>>

\* validate_behavior_signature: await hset(key, mapping={...})
MismatchHset(h) ==
    /\ handlers[h].pc = "mark_hset"
    /\ sessions' = [sessions EXCEPT ![handlers[h].sid] = HsetMismatch(@)]
    /\ handlers' = [handlers EXCEPT ![h].pc = "mark_expire"]
    /\ UNCHANGED <<env, srepeat, profile_copies, sin, sout, users, profiles, counters, geo_events, today, resp,
                   challenged, pushed, magic_links>>

\* validate_behavior_signature: await expire(key, 3600)
MismatchExpire(h) ==
    /\ handlers[h].pc = "mark_expire"
    /\ sessions' = [sessions EXCEPT ![handlers[h].sid] = Expire(@)]
    /\ handlers' = [handlers EXCEPT ![h].pc = "score"]
    /\ UNCHANGED <<env, srepeat, profile_copies, sin, sout, users, profiles, counters, geo_events, today, resp,
                   challenged, pushed, magic_links>>

\* the answer of an ingest
IngestReply(h, status) ==
    [Reply("ingest", handlers[h].user, status,
           IF status = 200 THEN handlers[h].result.level ELSE "", {}, handlers[h].scope,
           WasChallenged(handlers[h].user))
        EXCEPT !.sid = handlers[h].sid,
               !.note = IF handlers[h].mismatch THEN "behavior_signature_mismatch" ELSE "",
               !.risk = IF status = 200 THEN handlers[h].result.risk_score ELSE -1]

\* result = score_session(telemetry, profile), then await hset(key, mapping=state);
\* an exception of score_session ends the request with 500
IngestHset(h) ==
    /\ handlers[h].pc = "score"
    /\ IF handlers[h].result = ScoreRaised
       THEN /\ resp' = IngestReply(h, 500)
            /\ handlers' = [handlers EXCEPT ![h] = IdleFrame]
            /\ UNCHANGED sessions
       ELSE /\ sessions' = [sessions EXCEPT ![handlers[h].sid] =
                               HsetResult(@, handlers[h].user, handlers[h].result)]
            /\ handlers' = [handlers EXCEPT ![h].pc = "expire"]
            /\ UNCHANGED resp
    /\ UNCHANGED <<env, srepeat, profile_copies, sin, sout, users, profiles, counters, geo_events, today,
                   challenged, pushed, magic_links>>

\* await expire(key, 3600), the audit sample and the answer
IngestExpire(h) ==
    /\ handlers[h].pc = "expire"
    /\ sessions' = [sessions EXCEPT ![handlers[h].sid] = Expire(@)]
    /\ resp' = IngestReply(h, 200)
    /\ handlers' = [handlers EXCEPT ![h] = IdleFrame]
    /\ UNCHANGED <<env, srepeat, profile_copies, sin, sout, users, profiles, counters, geo_events, today,
                   challenged, pushed, magic_links>>

\* the request ends at an await: the client went away and the task is cancelled,
\* or the store call raised and the handler answers 500
IngestAbort(h, how) ==
    /\ handlers[h].kind = "ingest"
    /\ handlers[h].pc # "idle"
    /\ how \in {"cancelled", "failed"}
    /\ resp' = IF how = "failed" THEN IngestReply(h, 500) ELSE resp
    /\ handlers' = [handlers EXCEPT ![h] = IdleFrame]
    /\ UNCHANGED <<env, srepeat, profile_copies, sin, sout, users, profiles, counters, geo_events, today,
                   challenged, pushed, sessions, magic_links>>

\* the samples of the concurrent ingests: the login device at home, calm and
\* erratic, and another device on another network
IngestTelemetries ==
    {Telemetry(HomeDevice, HomeGeo, HomeIp, -1, -1, -1),
     Telemetry(HomeDevice, HomeGeo, HomeIp, 5000, 20, 7),
     Telemetry(OtherDevice, FarGeo, NewIp, 5000, 20, 7)}

IngestNext ==
    \/ \E h \in Handlers, sid \in SessionIds, u \in Users, tel \in IngestTelemetries,
          loaded \in {"document", "awaitable"} :
           \E tok \in {NoToken, LoginToken(u)} : IngestBegin(h, sid, u, tel, tok, loaded)
    \/ \E h \in Handlers : MismatchHset(h)
    \/ \E h \in Handlers : MismatchExpire(h)
    \/ \E h \in Handlers : IngestHset(h)
    \/ \E h \in Handlers : IngestExpire(h)
    \/ \E h \in Handlers, how \in {"cancelled", "failed"} : IngestAbort(h, how)
    \/ \E sid \in SessionIds : SessionTick(sid)
    \/ \E sid \in SessionIds : SessionStatus(sid)

SpecIngest == SessionInit /\ [][IngestNext]_vars

----------------------------------------------------------------------------
(* Claims *)

StepUpOps == {"behavioral", "trusted_device", "webauthn", "magic_link", "context", "ambient"}

\* a step-up request that succeeded
StepUpSucceeded == resp.op \in StepUpOps /\ resp.status = 200 /\ resp.level = "low"

\* C1: a login that scores medium, on /auth/login or on /auth/jwt/login, mints no
\* access or refresh token and leaves the user challenged.
C1_MediumMintsNothing ==
    (resp.op \in {"login", "jwt_login"} /\ resp.level = "medium") =>
        /\ resp.tokens = {}
        /\ challenged[resp.user]

\* C2: an access token is minted only for a user who is verified and onboarded, and
\* a step-up succeeds only for a user whose preceding login returned medium.
C2_AccessOnlyWhenEligible ==
    /\ \A t \in resp.tokens :
           t.scope = "access" =>
               users[t.user_id].verified /\ users[t.user_id].onboarding_complete
    /\ StepUpSucceeded => resp.prior

\* C3: a protected endpoint runs only for a bearer token whose scope is access; a
\* valid token with scope onboarding, refresh or none is rejected.
C3_ScopeEnforced ==
    (resp.op = "transaction" /\ resp.status = 200) => resp.presented = "access"

\* C4: every successful step-up of a challenged user leaves the user authenticated
\* and mints a token with scope access.
C4_StepUpMintsAccess ==
    (StepUpSucceeded /\ resp.prior) =>
        /\ \E t \in resp.tokens : t.scope = "access"
        /\ ~challenged[resp.user]

\* C5: every prefix in known_networks was seen on at least PROMOTION_THRESHOLD
\* distinct days of the trailing 30 days and last seen within DECAY_DAYS, so a single
\* low-risk login or context / ambient step-up from a new prefix does not add it.
C5_KnownNetworksEarned ==
    \A u \in Users : \A pf \in KnownNetworks(profiles[u]) :
        /\ Cardinality(DistinctDays(counters, u, pf)) >= PROMOTION_THRESHOLD
        /\ LastSeen(counters, u, pf) >= today - DECAY_DAYS

\* C8: a profile's baseline_version never decreases, whatever the interleaving of
\* learner invocations.
C8_VersionMonotonic ==
    [][\A u \in Users : profiles'[u].baseline_version >= profiles[u].baseline_version]_vars

\* C9: once baseline_stable is true it stays true, whatever the interleaving of
\* learner invocations and other profile writes.
C9_StableSticky ==
    [][\A u \in Users : profiles[u].baseline_stable => profiles'[u].baseline_stable]_vars

\* the last n elements of a sequence
LastN(seq, n) == IF Len(seq) <= n THEN seq ELSE SubSeq(seq, Len(seq) - n + 1, Len(seq))

\* C10: baseline_history never holds more than 3 entries, and it holds the most
\* recent (up to 3) entries the learner pushed, in the order they were stored.
C10_HistoryBounded ==
    \A u \in Users :
        /\ Len(profiles[u].baseline_history) <= 3
        /\ profiles[u].baseline_history = LastN(pushed[u], 3)

\* a fourth entry was pushed, by an invocation that overlapped another one: two
\* entries with the same version sit side by side
C10_Witness ==
    \E u \in Users :
        /\ Len(pushed[u]) > 3
        /\ Len(profiles[u].baseline_history) = 3
        /\ \E i \in 1..2 : profiles[u].baseline_history[i].version
                               = profiles[u].baseline_history[i + 1].version

C7_ScoreBounded ==
    sout # NoResult =>
        /\ sout.risk_score \in 0..100
        /\ sout.level \in {"low", "medium", "high"}

\* C11: a step-up magic link is one-shot.  A verify of an unknown token answers
\* not_found, of a used entry already_used, of an unused entry past expires_at
\* expired, and no rejection mints a token or changes the entry; the first
\* successful verify marks the entry used, and a used entry stays used.
C11_MagicLinkOneShot ==
    /\ []((resp.op = "magic_link" /\ resp.status # 200) => resp.tokens = {})
    /\ []((resp.op = "magic_link" /\ resp.status = 200) =>
              /\ resp.link \in DOMAIN magic_links
              /\ magic_links[resp.link].used)
    /\ [][\A k \in DOMAIN magic_links : magic_links[k].used => magic_links'[k].used]_vars
    /\ [][(resp' # resp /\ resp'.op = "magic_link") =>
              LET k == resp'.link
              IN  IF k \notin DOMAIN magic_links
                  THEN resp'.status = 404 /\ resp'.note = "not_found"
                       /\ magic_links' = magic_links
                  ELSE IF magic_links[k].used
                  THEN resp'.status = 400 /\ resp'.note = "already_used"
                       /\ magic_links' = magic_links
                  ELSE IF magic_links[k].expired
                  THEN resp'.status = 400 /\ resp'.note = "expired"
                       /\ magic_links' = magic_links
                  ELSE resp'.status = 200 /\ magic_links'[k].used]_vars

\* a verify of a link that an earlier verify had used was rejected
C11_Witness ==
    /\ resp.op = "magic_link"
    /\ resp.status = 400
    /\ resp.note = "already_used"
    /\ resp.link \in DOMAIN magic_links
    /\ magic_links[resp.link].used

C13_RefreshOnlyRefresh ==
    [][(resp' # resp /\ resp'.op = "jwt_refresh") =>
          /\ (resp'.presented = "refresh" /\ resp'.note # "undecodable") <=> resp'.status = 200
          /\ resp'.status # 200 => (resp'.status = 401 /\ resp'.tokens = {})
          /\ resp'.status = 200 =>
                 \E old \in resp.tokens :
                     /\ old.scope = "refresh"
                     /\ resp'.tokens = {[old EXCEPT !.scope = "access"]}
                     /\ resp'.user = old.user_id]_vars

\* a refresh token was exchanged for an access token
C13_Witness ==
    /\ resp.op = "jwt_refresh"
    /\ resp.status = 200
    /\ \E t \in resp.tokens : t.scope = "access" /\ t.user_id = resp.user /\ t.role = "user"

\* C14: every access-scope token the service mints carries a behavior_signature
\* claim, and the one minted by a low-risk /auth/login equals the
\* behavior_signature that login wrote to the user's profile.
C14_AccessCarriesSignature ==
    /\ \A t \in resp.tokens : t.scope = "access" => t.behavior_signature.set
    /\ (resp.op = "login" /\ resp.status = 200) =>
           \A t \in resp.tokens :
               t.behavior_signature = profiles[resp.user].behavior_signature

\* C15: for a protected request that names a session id the middleware decides on
\* the stored session entry alone: risk_level high blocks the request (403) and
\* medium asks for step-up (401), whatever the token, and the route does not run;
\* with no entry or risk_level low the middleware lets the request through, so a
\* request with the owner's access token is served.
C15_SessionDecision ==
    [][(resp' # resp /\ resp'.op = "transaction" /\ resp'.sid # NoSession) =>
          LET entry == sessions[resp'.sid]
          IN  /\ (entry.exists /\ entry.risk_level = "high") =>
                     (resp'.status = 403 /\ resp'.note = "session_blocked")
              /\ (entry.exists /\ entry.risk_level = "medium") =>
                     (resp'.status = 401 /\ resp'.note = "session_step_up")
              /\ (~entry.exists \/ entry.risk_level = "low") =>
                     /\ resp'.note = ""
                     /\ resp'.presented = "access" => resp'.status = 200]_vars

\* a request with a valid access token was refused because its session is medium
C15_Witness ==
    /\ resp.op = "transaction"
    /\ resp.presented = "access"
    /\ resp.status = 401
    /\ resp.note = "session_step_up"
    /\ sessions[resp.sid].exists
    /\ sessions[resp.sid].risk_level = "medium"

\* C16: a login that scores high is blocked: it mints no token of any scope, emits
\* a high_risk_login alert, returns the reasons and leaves the behaviour profile
\* unchanged.
C16_HighBlocks ==
    [][(resp' # resp /\ resp'.op \in {"login", "jwt_login"} /\ resp'.level = "high") =>
          /\ resp'.status = 403
          /\ resp'.tokens = {}
          /\ resp'.alert = "high_risk_login"
          /\ resp'.reasons
          /\ profiles' = profiles]_vars

\* C17: the learner runs only after a low decision.  A login of an unknown,
\* unverified or not yet onboarded user, and a login that scores medium or high,
\* leaves every behaviour profile (so low_risk_streak, baseline_version, baselines,
\* baseline_history, device_fingerprint, geo, known_networks), the known-network
\* counters and the geo events as they were.
C17_LearnerOnlyAfterLow ==
    [][(resp' # resp /\ resp'.op \in {"login", "jwt_login"}
        /\ (\/ ~Found(resp'.user)
            \/ ~users[resp'.user].verified
            \/ ~users[resp'.user].onboarding_complete
            \/ resp'.level \in {"medium", "high"})) =>
          /\ profiles' = profiles
          /\ counters' = counters
          /\ geo_events' = geo_events]_vars

\* a medium /auth/login of a user whose profile the learner had already updated
C17_Witness ==
    /\ resp.op = "login"
    /\ resp.level = "medium"
    /\ profiles[resp.user].low_risk_streak >= 1
    /\ profiles[resp.user].baseline_version >= 1

\* C18: step-up learning is gated.  behavioral_verify writes to the behaviour
\* profile only when its residual risk is at most 10: a pass with a risk of 11..20
\* mints its token and writes nothing, a risk above 20 fails and writes nothing;
\* context_answer and ambient_verify write to the profile only when the challenge
\* passed.
C18_StepUpLearningGated ==
    /\ [][(resp' # resp /\ resp'.op = "behavioral") =>
              /\ resp'.risk > 20 => (resp'.status = 403 /\ resp'.tokens = {}
                                      /\ profiles' = profiles)
              /\ (resp'.risk > 10 /\ resp'.risk <= 20) =>
                     (resp'.status = 200 /\ resp'.tokens # {} /\ profiles' = profiles)
              /\ (resp'.risk >= 0 /\ resp'.risk <= 10) =>
                     (resp'.status = 200 /\ profiles'[resp'.user].exists)
              /\ profiles' # profiles => (resp'.risk >= 0 /\ resp'.risk <= 10)]_vars
    /\ [][(resp' # resp /\ resp'.op \in {"context", "ambient"} /\ profiles' # profiles) =>
              (resp'.status = 200 /\ resp'.level = "low")]_vars

\* a behavioural step-up passed with a residual risk between 11 and 20
C18_Witness ==
    /\ resp.op = "behavioral"
    /\ resp.status = 200
    /\ resp.risk > 10
    /\ resp.risk <= 20
    /\ resp.tokens # {}

\* C19: escalation floors.  In every result of score_login, two or more missing
\* critical signals give a risk_score of at least 45 (level medium or high), and
\* three or more give at least 65 (level high), whatever the known-network bonus
\* took off before.
C19_EscalationFloors ==
    sout # NoResult =>
        /\ sout.missing_signals >= 2 =>
               (sout.risk_score >= 45 /\ sout.level \in {"medium", "high"})
        /\ sout.missing_signals >= 3 =>
               (sout.risk_score >= 65 /\ sout.level = "high")

\* a login from a known network with two signals missing, lifted to the floor of 45
C19_Witness ==
    /\ sout # NoResult
    /\ sout.missing_signals = 2
    /\ sout.risk_score = 45
    /\ IpInPrefixes(sin.m.ip, KnownNetworks(sin.p))

\* C20: the level is derived from the final score by strict thresholds.  For every
\* result of score_login and of score_session, the level is high iff the score is
\* above HIGH_THRESHOLD, medium iff it is above MEDIUM_THRESHOLD and at most
\* HIGH_THRESHOLD, low otherwise; a score of exactly 40 is low and one of exactly 60
\* is medium.
C20_StrictThresholds ==
    sout # NoResult =>
        /\ sout.level = "high" <=> sout.risk_score > HIGH_THRESHOLD
        /\ sout.level = "medium" <=>
               (sout.risk_score > MEDIUM_THRESHOLD /\ sout.risk_score <= HIGH_THRESHOLD)
        /\ sout.level = "low" <=> sout.risk_score <= MEDIUM_THRESHOLD
        /\ sout.risk_score = 40 => sout.level = "low"
        /\ sout.risk_score = 60 => sout.level = "medium"

\* score_session returned exactly 60, a medium
C20_Witness ==
    /\ sout # NoResult
    /\ sout.missing_signals = -1
    /\ sout.risk_score = 60
    /\ sout.level = "medium"

\* the sample of the drift scenario: the login device, place and network, with
\* idle_jitter_ms 5000, pointer_speed_std 2.0 and nav_bf_usage 7
DriftSample == Telemetry(HomeDevice, HomeGeo, HomeIp, 5000, 20, 7)

\* C21: session drift to step-up.  After ingest_telemetry stored the result of the
\* drift sample (no other anomaly), the session state has level medium, and the
\* next protected request with that session id is answered step-up required.
C21_DriftToStepUp ==
    /\ [][\A sid \in SessionIds, u \in Users :
              IngestTelemetry(sid, u, DriftSample, NoToken, "document") =>
                  sessions'[sid].risk_level = "medium"]_vars
    /\ [][\A sid \in SessionIds, u \in Users :
              (/\ resp.op = "ingest" /\ resp.status = 200 /\ resp.sid = sid
               /\ resp.note = "" /\ resp.risk = 13
               /\ CreateTransaction(LoginToken(u), u, sid)) =>
                  (resp'.status = 401 /\ resp'.note = "session_step_up")]_vars

\* C22: promotion.  While a user has low-risk logins from one prefix on at least
\* PROMOTION_THRESHOLD distinct calendar days of the trailing 30 days, the prefix is
\* in profile.known_networks, from the login that reaches the threshold on; and
\* however often a prefix was added, known_networks holds exactly one copy of it.
C22_Promotion ==
    \A u \in Users :
        /\ \A pf \in {r.prefix : r \in counters} :
               Cardinality(DistinctDays(counters, u, pf)) >= PROMOTION_THRESHOLD =>
                   pf \in KnownNetworks(profiles[u])
        /\ \A pf \in KnownNetworks(profiles[u]) :
               Cardinality({i \in DOMAIN profiles[u].known_networks :
                               profiles[u].known_networks[i] = pf}) = 1

\* a user whose logins from one prefix reached the threshold of distinct days
C22_Witness ==
    \E u \in Users : \E pf \in {r.prefix : r \in counters} :
        /\ Cardinality(DistinctDays(counters, u, pf)) >= PROMOTION_THRESHOLD
        /\ pf \in KnownNetworks(profiles[u])
        /\ resp.op = "login" /\ resp.user = u /\ resp.level = "low"

\* C23: decay.  The demotion sweep of a low-risk login takes out of known_networks
\* every prefix whose most recent counter activity is more than DECAY_DAYS old, and
\* keeps every prefix whose most recent last_seen is within the window.
C23_Decay ==
    [][\A u \in Users, req \in NetRequests :
          (Login(u, req, "none") /\ resp'.level = "low") =>
              \A pf \in KnownNetworks(profiles[u]) :
                  LET seen == LastSeen(counters', u, pf)
                  IN  /\ (seen # -1 /\ seen < today - DECAY_DAYS) =>
                             pf \notin KnownNetworks(profiles'[u])
                      /\ (seen # -1 /\ seen >= today - DECAY_DAYS) =>
                             pf \in KnownNetworks(profiles'[u])]_vars

\* after a low-risk login, a prefix last seen more than DECAY_DAYS ago is gone and
\* the prefix of the login is known
C23_Witness ==
    /\ resp.op = "login"
    /\ resp.level = "low"
    /\ resp.user \in Users
    /\ \E pf \in {r.prefix : r \in counters} :
           /\ LastSeen(counters, resp.user, pf) # -1
           /\ LastSeen(counters, resp.user, pf) < today - DECAY_DAYS
           /\ pf \notin KnownNetworks(profiles[resp.user])
    /\ \E pf \in KnownNetworks(profiles[resp.user]) :
           LastSeen(counters, resp.user, pf) = today

\* C24: private addresses are never tracked or promoted.  No distinct-day counter
\* row carries a prefix derived from an RFC1918, link-local or loopback address, and
\* no such prefix is in known_networks.
C24_PrivateNeverTracked ==
    /\ \A r \in counters : r.prefix \notin PrivateNets
    /\ \A u \in Users : KnownNetworks(profiles[u]) \cap PrivateNets = {}

\* C25: registration is unique per identifier.  Whatever the interleaving of
\* register calls, no two users share an email or a phone; and a register that is
\* answered 409 creates no user, sends no magic link, and carries the verified and
\* onboarding_complete flags of the existing user.
C25_RegistrationUnique ==
    /\ [](\A i \in DOMAIN users : \A j \in DOMAIN users :
             (i # j /\ users[i].exists /\ users[j].exists) =>
                 /\ users[i].email # users[j].email
                 /\ users[i].phone = "" \/ users[i].phone # users[j].phone)
    /\ [][(resp' # resp /\ resp'.op = "register" /\ resp'.status = 409) =>
              /\ users' = users
              /\ resp'.tokens = {}
              /\ resp'.flags.set
              /\ resp'.flags.verified = users[resp'.user].verified
              /\ resp'.flags.onboarding_complete = users[resp'.user].onboarding_complete]_vars

\* C26: onboarding upserts and never duplicates.  After any sequence of onboarding
\* operations for one user there is exactly one behaviour profile document for that
\* user_id, and onboarding_complete stays true once set.
C26_OnboardingUpserts ==
    /\ [](\A u \in DOMAIN profiles : profiles[u].exists => profile_copies[u] = 0)
    /\ [][\A u \in DOMAIN users :
              users[u].onboarding_complete => users'[u].onboarding_complete]_vars

\* C27: login is gated before any scoring.  A login for an unknown identifier is
\* answered 401 with a failed_login alert; for a registered, unverified user 403 with
\* code EMAIL_NOT_VERIFIED; for a verified user without onboarding_complete 403 with
\* code ONBOARDING_REQUIRED and an onboarding token as the only token; none of them
\* carries an access token or a risk level.
C27_LoginGated ==
    [][(resp' # resp /\ resp'.op \in {"login", "jwt_login"}) =>
          LET u == resp'.user
          IN  /\ ~Found(u) =>
                     /\ resp'.status = 401 /\ resp'.alert = "failed_login"
                     /\ resp'.tokens = {} /\ resp'.level = ""
              /\ (Found(u) /\ ~users[u].verified) =>
                     /\ resp'.status = 403 /\ resp'.note = "EMAIL_NOT_VERIFIED"
                     /\ resp'.tokens = {} /\ resp'.level = ""
              /\ (Found(u) /\ users[u].verified /\ ~users[u].onboarding_complete) =>
                     /\ resp'.status = 403 /\ resp'.note = "ONBOARDING_REQUIRED"
                     /\ resp'.tokens # {} /\ resp'.level = ""
                     /\ \A t \in resp'.tokens : t.scope = "onboarding" /\ t.user_id = u]_vars

\* a verified user who has not onboarded was sent to onboarding
C27_Witness ==
    /\ resp.op \in {"login", "jwt_login"}
    /\ resp.status = 403
    /\ resp.note = "ONBOARDING_REQUIRED"
    /\ \E t \in resp.tokens : t.scope = "onboarding"

\* C28: learning is best-effort.  Whichever store operation of the learner fails
\* during a low-risk login (profile read, profile update, counter upsert, promotion,
\* demotion, geo insert), the login answers 200 with an access token; and when the
\* failure is in promotion or demotion the baseline update of that login is still
\* written.
C28_LearningBestEffort ==
    [][\A u \in Users, req \in FaultRequests, fault \in LearnerFaults :
          (Login(u, req, fault) /\ ScoreLogin(req.ch, req.m, profiles[u]).level = "low") =>
              /\ resp'.status = 200
              /\ resp'.level = "low"
              /\ \E t \in resp'.tokens : t.user_id = u /\ t.scope = "access"
              /\ fault \in {"promote", "demote"} =>
                     /\ profiles'[u].baselines = UpdatedBaselines(profiles[u].baselines, req.ch)
                     /\ profiles'[u].baseline_version = NextVersion(profiles[u])
                     /\ Len(pushed'[u]) = Len(pushed[u]) + 1]_vars

\* a low-risk login has answered with an access token and written its baseline
\* while a known prefix without any counter activity outlived the demotion sweep
C28_Witness ==
    /\ resp.op = "login"
    /\ resp.status = 200
    /\ resp.level = "low"
    /\ resp.user \in Users
    /\ \E t \in resp.tokens : t.scope = "access"
    /\ Len(pushed[resp.user]) > 0
    /\ \E pf \in KnownNetworks(profiles[resp.user]) : LastSeen(counters, resp.user, pf) = -1

\* C29: a store error during scoring yields a conservative outcome.  When the
\* profile read made for scoring fails, /auth/login answers medium with the reason
\* evaluation_degraded and mints no access token: neither an internal error nor an
\* allow.
C29_DegradedScoring ==
    [][\A u \in Users, req \in FaultRequests :
          (Login(u, req, "load") /\ LoginGate(u) = 0) =>
              /\ resp'.status = 200
              /\ resp'.level = "medium"
              /\ resp'.note = "evaluation_degraded"
              /\ \A t \in resp'.tokens : t.scope # "access"]_vars

\* C30: store expiry cancels a session's risk state.  Every ingest_telemetry leaves
\* the session entry with a TTL of SESSION_TTL; an entry that sees no ingest for
\* SESSION_TTL seconds is gone; and once it is gone, a protected request with that
\* session id is not refused by the session guard and session_status returns an
\* empty entry.
C30_ExpiryCancels ==
    /\ [](\A sid \in SessionIds :
             sessions[sid].exists => sessions[sid].ttl \in 1..SESSION_TTL)
    /\ [][\A sid \in SessionIds, u \in Users, tel \in Telemetries,
             loaded \in {"document", "awaitable"}, tok \in {NoToken, LoginToken(1)} :
             IngestTelemetry(sid, u, tel, tok, loaded) =>
                 sessions'[sid].exists /\ sessions'[sid].ttl = SESSION_TTL]_vars
    /\ [][\A sid \in SessionIds :
             (SessionTick(sid) /\ sessions[sid].ttl <= SESSION_TTL \div 2) =>
                 sessions'[sid] = NoHash]_vars
    /\ [][\A sid \in SessionIds, u \in Users, tok \in {NoToken, LoginToken(1)} :
             (CreateTransaction(tok, u, sid) /\ ~sessions[sid].exists) =>
                 resp'.note = ""]_vars
    /\ [][\A sid \in SessionIds :
             (SessionStatus(sid) /\ ~sessions[sid].exists) =>
                 /\ resp'.level = ""
                 /\ resp'.risk = -1
                 /\ resp'.note = ""
                 /\ resp'.user = NoUser]_vars

\* what typing_penalty / mouse_penalty read when handed the whole profile document:
\* the baselines a seeded group holds and the raw values stored at onboarding
WholeDocumentView(p) ==
    [typing_baseline |-> IF p.baselines.typing > 0 THEN SeedTypingBaseline(SlowTyping)
                         ELSE NoTypingBaseline,
     typing_pattern |-> p.typing_pattern,
     pointer_baseline |-> IF p.baselines.pointer > 0 THEN SeedPointerBaseline(MouseMoves)
                          ELSE NoPointerBaseline,
     mouse_dynamics |-> p.mouse_dynamics]

\* the behavioural penalties taken from the z-score ladder on the learned baselines
LadderPenalty(ch, p) ==
    (IF ch.type = "typing" THEN TypingPenalty(ch, WholeDocumentView(p)) ELSE 0)
    + (IF ch.type \in {"mouse", "touch"} THEN MousePenalty(ch, WholeDocumentView(p)) ELSE 0)

\* C31: learned baselines drive scoring.  For a profile whose baselines hold a mean
\* and a std above 1e-6 for the dimensions of the challenge, the result of
\* score_login is the one whose behavioural penalty comes from the z-score ladder
\* on those baselines, not from the absolute-difference ladder.
C31_BaselinesDriveScoring ==
    (/\ sout # NoResult
     /\ sout.missing_signals # -1
     /\ \/ sin.ch.type = "typing" /\ sin.p.baselines.typing > 0
        \/ sin.ch.type \in {"mouse", "touch"} /\ sin.p.baselines.pointer > 0)
        => sout = ScoreLoginGiven(sin.ch, sin.m, sin.p, LadderPenalty(sin.ch, sin.p))

\* C32: known-good login effect.  Each low-risk login, run without interleaving and
\* with the store available, raises the user's baseline_version by exactly 1 and
\* low_risk_streak by exactly 1, and the newest baseline_history entry carries the
\* new baseline_version.
C32_KnownGoodLogin ==
    [][\A u \in Users, req \in NetRequests :
          (Login(u, req, "none") /\ resp'.status = 200 /\ resp'.level = "low") =>
              LET before == profiles[u]
                  after  == profiles'[u]
              IN  /\ after.baseline_version = before.baseline_version + 1
                  /\ after.low_risk_streak = before.low_risk_streak + 1
                  /\ Len(after.baseline_history) > 0
                  /\ after.baseline_history[Len(after.baseline_history)].version
                         = after.baseline_version
                  /\ Len(after.baseline_history)
                         = Min(HISTORY_SLICE, Len(before.baseline_history) + 1)]_vars

\* a second low-risk login has answered: version and streak stand at 2 or more
\* and the newest history entry carries that version
C32_Witness ==
    /\ resp.op = "login"
    /\ resp.status = 200
    /\ resp.level = "low"
    /\ resp.user \in Users
    /\ profiles[resp.user].baseline_version >= 2
    /\ profiles[resp.user].low_risk_streak >= 2
    /\ profiles[resp.user].baseline_history[Len(profiles[resp.user].baseline_history)].version
           = profiles[resp.user].baseline_version

\* C33: the client IP is taken, in order, from CF-Connecting-IP, the first entry of
\* X-Forwarded-For, X-Real-IP and the socket peer; login, the step-ups,
\* record_telemetry and /util/ip all use this precedence, and no field of the
\* request body outranks these sources.
C33_ClientIpPrecedence ==
    sout # NoResult =>
        LET observed == FirstSet(<<sin.cf, FirstForwarded(sin.xff), sin.xri, sin.peer>>)
        IN  /\ sout.login = observed
            /\ sout.step_up = observed
            /\ sout.ambient = observed
            /\ sout.telemetry = observed
            /\ sout.util = IF observed = NoIp THEN UnknownIp ELSE observed

C35_NeverRaises ==
    sout # NoResult =>
        /\ sout # Raised
        /\ sout.level \in {"low", "medium", "high"}
        /\ sout.risk_score >= 0

\* C36: score_transaction on a transaction without user_id returns risk_score 0 and
\* level low with the single reason "Invalid transaction - no user_id", applying no
\* other penalty.
C36_MissingUserId ==
    (sout # NoResult /\ sin.tx.user_id = 0) =>
        /\ sout.risk_score = 0
        /\ sout.level = "low"
        /\ sout.reasons = <<"Invalid transaction - no user_id">>

\* C37: at most one verification of a magic link ever succeeds, also when several
\* magic_link_verify requests for the same token run concurrently and their find_one
\* and update_one steps interleave: no verify succeeds for a link that an earlier
\* successful verify has marked used.
C37_OneShotConcurrent ==
    [][\A h \in Handlers :
          (MagicVerifyEnd(h) /\ resp'.status = 200) =>
              ~magic_links[handlers[h].link].used]_vars

\* C38: there is at most one distinct-day counter row per (user_id, prefix, day) in
\* every reachable state, also when two low-risk logins of the same user from the
\* same prefix on the same day both read "no row" before either inserts; the
\* insert that comes second leaves the rows as they are, and the login still
\* answers 200 with level low.
C38_OneRowPerDay ==
    /\ [](\A r, q \in counters : SameKey(r, q) => r = q)
    /\ [][\A h \in Handlers :
             (CounterUpsert(h) /\ handlers[h].doc.id = 0
                  /\ \E r \in counters : SameKey(r, handlers[h].doc)) =>
                 (counters' = counters /\ handlers'[h].pc = "counted")]_vars
    /\ [][\A h \in Handlers :
             CounterLoginEnd(h) => (resp'.status = 200 /\ resp'.level = "low")]_vars

\* two logins in flight that both read no row and both ran their insert, with one
\* row for the key
C38_Witness ==
    /\ \A h \in Handlers : handlers[h].pc = "counted" /\ handlers[h].doc.id = 0
    /\ SameKey(handlers[1].doc, handlers[2].doc)
    /\ Cardinality({r \in counters : SameKey(r, handlers[1].doc)}) = 1

\* no ingest is between its store calls on session sid
Settled(sid) == \A h \in Handlers : handlers[h].kind = "ingest" => handlers[h].sid # sid

\* C39: every session entry that exists has an expiry of at most 3600 s: no
\* execution of ingest_telemetry or validate_behavior_signature, including one
\* that is cancelled or fails between its hset and its expire, leaves an entry
\* without a TTL.
C39_EntriesExpire ==
    \A sid \in SessionIds :
        (sessions[sid].exists /\ Settled(sid)) => sessions[sid].ttl \in 1..SESSION_TTL

====
